---------------------------- MODULE Spec2Model ----------------------------
(***************************************************************************)
(* CryptoBookKeeper: the normalization and incremental-sync engine.        *)
(*                                                                         *)
(*   scripts/export_debank.py     DeBankExporter  (on-chain, sync_log)     *)
(*   scripts/export_exchanges.py  ExchangeExporter (CCXT, monthly CSV)     *)
(*   scripts/stage_duckdb.py      DuckDBStager    (INSERT OR REPLACE)      *)
(*                                                                         *)
(* Three state machines share the module:                                  *)
(*   Spec       a sequence of DeBankExporter runs (export_all)             *)
(*   SpecStage  DuckDBStager loading the partition files into raw tables   *)
(*   SpecExch   a sequence of ExchangeExporter runs (export_exchange)      *)
(* Timestamps are UTC epoch seconds.  An ISO-8601 string written by        *)
(* datetime.isoformat() and parsed back by pandas denotes the same         *)
(* instant, so block_timestamp is carried as the instant; year and month   *)
(* are computed from it by the proleptic Gregorian calendar (YearMonth).   *)
(***************************************************************************)
EXTENDS Integers, Sequences, FiniteSets

(***************************************************************************)
(* Bounds of the model.                                                    *)
(***************************************************************************)
\* number of export_all runs explored
MaxRuns == 2
\* number of environment events in a behaviour: a record appears in an
\* upstream history list, the API starts to return a later snapshot of a
\* record, a request fails, a sync_log query or write fails, the run is
\* interrupted
MaxEvents == 2
\* number of save steps of the exporters that write the raw CSV files
\* between the stager's loads
MaxDiskEvents == 3
\* number of export_exchange runs explored
MaxExchRuns == 2
MaxAllEvents == 3
MaxCoinEvents == 2
\* number of outgoing, and of incoming, legs of an on-chain record
MaxLegs == 2
\* get_token_info calls of one exporter
MaxTokenCalls == 3

(***************************************************************************)
(* Program constants.                                                      *)
(***************************************************************************)
\* START_TS default '2024-01-01T00:00:00Z'
StartTs == 1704067200
\* START_TS default of the exchange exporter, 2021-01-01T00:00:00Z
ExchStartTs == 1609459200
\* BATCH_SIZE values explored
BatchSizes == {1, 2}
\* overlap_seconds
Overlap == 3600
\* get_user_history(page_count=100)
PageCount == 100
\* get_user_history(max_pages=50)
MaxPages == 50

\* Python's None / pandas' NaN in a text column
NoneV == "None"
\* ts_utc = None (time_at missing or 0): pandas' NaT after to_datetime
NaT == 0
\* a JSON null in the time_at field of an API record
NullTimeAt == -1

Range(s) == {s[i] : i \in DOMAIN s}

(***************************************************************************)
(* Calendar: the (year, month) of a UTC instant, as pandas' dt.year and    *)
(* dt.month and strftime('%Y-%m') compute it.                              *)
(***************************************************************************)
YearMonth(ts) ==
    LET z    == (ts \div 86400) + 719468
        era  == z \div 146097
        doe  == z - era * 146097
        yoe  == (doe - doe \div 1460 + doe \div 36524 - doe \div 146096) \div 365
        doy  == doe - (365 * yoe + yoe \div 4 - yoe \div 100)
        mp   == (5 * doy + 2) \div 153
        m    == IF mp < 10 THEN mp + 3 ELSE mp - 9
        y    == yoe + era * 400
    IN  <<IF m <= 2 THEN y + 1 ELSE y, m>>

(***************************************************************************)
(* The upstream DeBank API: per chain, the history list of one address,    *)
(* in the order the API returns it.  A record is                           *)
(*   [id, chain, time_at, is_scam, ver]                                    *)
(* where ver stands for the rest of the payload (legs, amounts, ...): the  *)
(* API may return a later snapshot of the same transaction.                *)
(***************************************************************************)
Chains == <<"eth", "matic">>
ChainSet == Range(Chains)
TxIds == {"0xh1", "0xh2"}
\* a transaction the API returns with "time_at": null
NullIds == {"0xnull"}
\* a transaction older than START_TS
OldIds == {"0xold"}
\* time_at of a transaction: 0xh1 at 2024-01-15T00:00:00Z, 0xh2 at
\* 2024-02-09T23:30:00Z (inside the overlap window of the first run),
\* 0xold at 2023-12-15T00:00:00Z
TimeAt(id) ==
    IF id = "0xh1" THEN 1705276800
    ELSE IF id = "0xh2" THEN 1707521400
    ELSE IF id = "0xold" THEN 1702598400 ELSE NullTimeAt

\* CURRENT_TIMESTAMP of run r: 2024-02-10T00:00:00Z, then every two hours
RunClock(r) == 1707523200 + (r - 1) * 7200

VARIABLES
    history,          \* upstream: chain -> sequence of API records
    files,            \* data/raw/onchain/ethereum: (year, month) -> rows
    sync_log,         \* sync_log table: source -> row
    now,              \* CURRENT_TIMESTAMP of the run in progress
    runNo,            \* runs started so far
    pc,               \* position of the run: idle, chain, save
    incremental,      \* self.incremental
    filter_scams,     \* self.filter_scams
    chainIdx,         \* index of the chain the loop is at
    all_transactions, \* the list export_address_data accumulates
    last_call,        \* the last get_last_sync_timestamp call and its result
    files_before,     \* the partition files as the last save step found them
    faults,           \* failures injected so far
    trace,            \* what has happened so far (history of the behaviour)
    last_outcome,     \* the outcome of the last chain loop iteration
    xfiles,           \* data/raw/exchanges: (exchange, entity, month) -> rows
    raw,              \* DuckDB raw tables: table name -> rows
    raw_before,       \* the raw tables as the last load found them
    reloads,          \* per table: loads since the files last changed (0..2)
    dup_raises,       \* this DuckDB build rejects a batch that holds a key twice
    last_stmt,        \* the last INSERT OR REPLACE statement a load executed
    disk_writes,      \* save steps of the exporters the stager's directory has seen
    xhistory,         \* upstream: the trades of the exchange account, ascending
    xfiles_before,    \* the exchange files as the last export found them
    xruns,            \* exchange exports run so far
    loop,             \* the exchange export under way, step by step
    chistory,         \* upstream: entity -> currency -> deposits or withdrawals
    probe,            \* the export: the currencies whose request failed
    ahistory,         \* upstream: address -> chain -> sequence of API records
    addrIdx,          \* index of the address export_all is at
    sync_ops,         \* the sync_log reads and writes of the run, in order
    norm,             \* a normalizer call: its input and what it returned
    curated           \* DuckDB staged tables and transactions_unified

dbVars == <<history, files, sync_log, now, runNo, pc, incremental,
            filter_scams, chainIdx, all_transactions, last_call, last_outcome,
            files_before, faults, trace, last_outcome>>

\* the state of the stager, and the exchange files it shares with the
\* exchange exporter
stVars == <<raw, raw_before, reloads, dup_raises, last_stmt, disk_writes>>

\* the state of the exchange exporter
exVars == <<xhistory, xfiles_before, xruns, loop, chistory, probe>>

\* the address loop of export_all, the normalizer calls and the curated
\* tables
allVars == <<ahistory, addrIdx, sync_ops, norm, curated>>

Source(chain) == "debank_" \o chain

\* no chain loop iteration recorded
NoOutcome == [made |-> FALSE, source |-> NoneV, count |-> 0,
              status |-> NoneV, error |-> NoneV, fetched |-> <<>>,
              scam_count |-> 0]

\* no get_last_sync_timestamp call recorded
NoCall == [made |-> FALSE, source |-> NoneV, result |-> 0, failed |-> FALSE,
           hadRow |-> FALSE, row_ts |-> 0]

Sources == {Source(c) : c \in ChainSet}

RawTables == {"raw_onchain_transfers", "raw_exchanges_trades",
              "raw_exchanges_deposits", "raw_exchanges_withdrawals"}

(***************************************************************************)
(* Sync State Tracker.                                                     *)
(***************************************************************************)
\* self.conn is set exactly when self.incremental stays True (__init__)
Conn == incremental

\* get_last_sync_timestamp with the overlap added instead of subtracted
GetLastSyncTimestamp_OverlapAdded(source, queryFails) ==
    IF ~Conn \/ ~incremental \/ queryFails \/ source \notin DOMAIN sync_log
    THEN StartTs
    ELSE sync_log[source].last_sync_ts + Overlap

\* get_last_sync_timestamp whose except branch returns the current time
GetLastSyncTimestamp_FailsToNow(source, queryFails) ==
    IF ~Conn \/ ~incremental
    THEN StartTs
    ELSE IF queryFails
         THEN now
         ELSE IF source \in DOMAIN sync_log /\ sync_log[source].last_sync_ts # 0
              THEN sync_log[source].last_sync_ts - Overlap
              ELSE StartTs

\* get_last_sync_timestamp(source); queryFails: conn.execute raises
GetLastSyncTimestamp(source, queryFails) ==
    IF ~Conn \/ ~incremental
    THEN StartTs
    ELSE IF queryFails
         THEN StartTs
         ELSE IF source \in DOMAIN sync_log /\ sync_log[source].last_sync_ts # 0
              THEN sync_log[source].last_sync_ts - Overlap
              ELSE StartTs

\* update_sync_log(source, sync_count, status, error); writeFails: the
\* INSERT OR REPLACE raises and is logged
UpdateSyncLog(source, sync_count, status, error, writeFails) ==
    IF ~Conn \/ ~incremental
    THEN sync_log
    ELSE IF writeFails
         THEN sync_log
         ELSE [s \in (DOMAIN sync_log) \cup {source} |->
                  IF s = source
                  THEN [last_sync_ts |-> now, sync_count |-> sync_count,
                        sync_status |-> status, error_message |-> error]
                  ELSE sync_log[s]]

(***************************************************************************)
(* Fetch: get_user_history.                                                *)
(***************************************************************************)
Min(a, b) == IF a < b THEN a ELSE b

\* one user/history_list request: the page_count newest records older
\* than start_time (all records when no start_time is sent)
ApiPage(hist, start_time, page_count) ==
    LET older == IF start_time = 0
                 THEN hist
                 ELSE SelectSeq(hist, LAMBDA t : t.time_at < start_time)
    IN  SubSeq(older, 1, Min(page_count, Len(older)))

\* the while loop of get_user_history; failPage = n > 0: the n-th request
\* raises (RequestException), which ends the loop with what was fetched
RECURSIVE HistoryLoop(_, _, _, _, _, _, _)
HistoryLoop(hist, all, cur, pages, page_count, max_pages, failPage) ==
    IF pages >= max_pages THEN all
    ELSE IF pages + 1 = failPage THEN all
    ELSE LET history_list == ApiPage(hist, cur, page_count)
             all2 == all \o history_list
         IN  IF history_list = <<>> THEN all
             ELSE IF Len(history_list) < page_count THEN all2
             ELSE IF history_list[Len(history_list)].time_at \in {0, NullTimeAt}
                  THEN all2
             ELSE HistoryLoop(hist, all2,
                              history_list[Len(history_list)].time_at,
                              pages + 1, page_count, max_pages, failPage)

GetUserHistory(hist, page_count, max_pages, failPage) ==
    HistoryLoop(hist, <<>>, 0, 0, page_count, max_pages, failPage)

(***************************************************************************)
(* Normalizer (the fields the merge and the sync engine read).             *)
(***************************************************************************)
NormalizeTransaction(tx) ==
    [tx_hash         |-> tx.id,
     log_index       |-> NoneV,
     chain           |-> tx.chain,
     block_timestamp |-> IF tx.time_at \notin {0, NullTimeAt}
                         THEN tx.time_at ELSE NaT,
     raw_json        |-> tx.ver]

\* the natural key of a stored row
NaturalKey(r) == <<r.chain, r.tx_hash, r.log_index>>

(***************************************************************************)
(* Partition Manager: the save step of export_address_data.                *)
(***************************************************************************)
\* DataFrame.drop_duplicates(subset=['tx_hash']), keep='first'
RECURSIVE DropDuplicatesTxHash(_)
DropDuplicatesTxHash(rows) ==
    IF rows = <<>> THEN <<>>
    ELSE LET front == DropDuplicatesTxHash(SubSeq(rows, 1, Len(rows) - 1))
             last  == rows[Len(rows)]
         IN  IF \E i \in DOMAIN front : front[i].tx_hash = last.tx_hash
             THEN front
             ELSE Append(front, last)

\* pd.concat([existing_df, group]).drop_duplicates(subset=['tx_hash'])
MergePartition(existing, group) == DropDuplicatesTxHash(existing \o group)

\* df.dropna(subset=['timestamp'])
DropNaT(rows) == SelectSeq(rows, LAMBDA r : r.block_timestamp # NaT)

\* a save step that writes all the run's records to the partition of the
\* first one
SavePartitionFiles_FirstMonth(stored, rows) ==
    LET df == DropNaT(rows)
    IN  IF df = <<>> THEN stored
        ELSE LET k == YearMonth(df[1].block_timestamp)
             IN  [j \in (DOMAIN stored) \cup {k} |->
                     IF j = k
                     THEN IF k \in DOMAIN stored
                          THEN MergePartition(stored[k], df)
                          ELSE df
                     ELSE stored[j]]

\* the groupby (year, month) loop over the run's records
SavePartitionFiles(stored, rows) ==
    LET df     == DropNaT(rows)
        months == {YearMonth(df[i].block_timestamp) : i \in DOMAIN df}
        group(k) == SelectSeq(df, LAMBDA r : YearMonth(r.block_timestamp) = k)
    IN  [k \in (DOMAIN stored) \cup months |->
            IF k \in months
            THEN IF k \in DOMAIN stored
                 THEN MergePartition(stored[k], group(k))
                 ELSE group(k)
            ELSE stored[k]]

\* the months of the run's records in the order of the groupby loop
\* (ascending); the n-th and later ones are not reached when the loop is
\* left at its n-th file
MonthBefore(a, b) == a[1] < b[1] \/ (a[1] = b[1] /\ a[2] < b[2])

SavedMonths(rows) ==
    {YearMonth(DropNaT(rows)[i].block_timestamp) : i \in DOMAIN DropNaT(rows)}

\* the groupby loop left after n files were written
SavePartitionFilesUpTo(stored, rows, n) ==
    LET months  == SavedMonths(rows)
        written == {k \in months :
                       Cardinality({j \in months : MonthBefore(j, k)}) < n}
    IN  SavePartitionFiles(stored,
            SelectSeq(DropNaT(rows),
                      LAMBDA r : YearMonth(r.block_timestamp) \in written))

(***************************************************************************)
(* The upstream changes between runs: a transaction appears in the         *)
(* history (the list stays ordered newest first), or the API starts to     *)
(* return a later snapshot of a transaction.                               *)
(***************************************************************************)
RECURSIVE SumVer(_)
SumVer(hist) ==
    IF hist = <<>> THEN 0 ELSE hist[1].ver + SumVer(SubSeq(hist, 2, Len(hist)))

\* upstream events so far: a record that appeared counts 1, a revised one 2
TotalHist == SumVer(history["eth"]) + SumVer(history["matic"])

\* environment events so far
Events == TotalHist + faults

InsertNewestFirst(hist, tx) ==
    LET n == Cardinality({i \in DOMAIN hist : hist[i].time_at > tx.time_at})
    IN  SubSeq(hist, 1, n) \o <<tx>> \o SubSeq(hist, n + 1, Len(hist))

UpstreamAdd(chain, id, scam) ==
    /\ pc = "idle"
    /\ Events < MaxEvents
    /\ history' = [history EXCEPT ![chain] =
          InsertNewestFirst(@, [id |-> id, chain |-> chain,
                                time_at |-> TimeAt(id),
                                is_scam |-> scam, ver |-> 1])]
    /\ trace' = [trace EXCEPT !.changed = @ \/ runNo > 0]
    /\ UNCHANGED <<files, sync_log, now, runNo, pc, incremental, filter_scams,
                   chainIdx, all_transactions, last_call, last_outcome, files_before,
                   faults, xfiles, stVars, exVars, allVars>>

UpstreamRevise(chain, i) ==
    /\ pc = "idle"
    /\ runNo > 0
    /\ Events < MaxEvents
    /\ i \in DOMAIN history[chain]
    /\ history[chain][i].ver = 1
    /\ history' = [history EXCEPT ![chain][i].ver = 2]
    /\ trace' = [trace EXCEPT !.changed = TRUE]
    /\ UNCHANGED <<files, sync_log, now, runNo, pc, incremental, filter_scams,
                   chainIdx, all_transactions, last_call, last_outcome, files_before,
                   faults, xfiles, stVars, exVars, allVars>>

(***************************************************************************)
(* One run of the exporter: __init__, export_all, export_address_data.     *)
(***************************************************************************)
\* DeBankExporter(incremental=requested); connOk: duckdb.connect succeeds
StartRun(requested, connOk) ==
    /\ pc = "idle"
    /\ runNo < MaxRuns
    /\ runNo' = runNo + 1
    /\ now' = RunClock(runNo + 1)
    /\ incremental' = (requested /\ connOk)
    /\ chainIdx' = 1
    /\ all_transactions' = <<>>
    /\ pc' = "chain"
    /\ trace' = [trace EXCEPT !.fetchOk = TRUE, !.saved = FALSE,
                               !.connFailed = requested /\ ~connOk]
    /\ last_call' = NoCall
    /\ last_outcome' = NoOutcome
    /\ files_before' = <<>>
    /\ UNCHANGED <<history, files, sync_log, filter_scams, faults, xfiles,
                   stVars, exVars, allVars>>

\* a scam filter that drops nothing
FilterScams_KeepAll(enabled, transactions) == transactions

\* the scam filter of export_address_data
FilterScams(enabled, transactions) ==
    IF enabled /\ transactions # <<>>
    THEN SelectSeq(transactions, LAMBDA tx : ~tx.is_scam)
    ELSE transactions

\* one iteration of the chain loop of export_address_data
B2N(b) == IF b THEN 1 ELSE 0

ProcessChain(failPage, queryFails, writeFails) ==
    /\ pc = "chain"
    \* the sync_log is queried and written in incremental mode only
    /\ (queryFails \/ writeFails) => incremental
    /\ faults' = faults + B2N(failPage > 0) + B2N(queryFails) + B2N(writeFails)
    /\ TotalHist + faults' <= MaxEvents
    /\ LET chain  == Chains[chainIdx]
           source == Source(chain)
           fetched == GetUserHistory(history[chain], PageCount, MaxPages,
                                     failPage)
           noScam == FilterScams(filter_scams, fetched)
           \* scam_count = original_count - len(transactions)
           scam_count == Len(fetched) - Len(noScam)
           last_sync == GetLastSyncTimestamp(source, queryFails)
           \* tx.get('time_at', 0) > last_sync raises TypeError on a null
           raised == /\ incremental /\ noScam # <<>>
                     /\ \E i \in DOMAIN noScam : noScam[i].time_at = NullTimeAt
           transactions ==
               IF incremental /\ noScam # <<>>
               THEN SelectSeq(noScam, LAMBDA tx : tx.time_at > last_sync)
               ELSE noScam
           normalized == [i \in 1..Len(transactions) |->
                             NormalizeTransaction(transactions[i])]
       IN  /\ all_transactions' = IF raised THEN all_transactions
                                  ELSE all_transactions \o normalized
           /\ sync_log' = IF raised
                          THEN UpdateSyncLog(source, 0, "failed", "TypeError",
                                             writeFails)
                          ELSE UpdateSyncLog(source, Len(normalized),
                                             "success", NoneV, writeFails)
           \* how the iteration ended: the records it produced, and
           \* whether the fetch or the processing failed
           /\ last_outcome' =
                  IF raised
                  THEN [made |-> TRUE, source |-> source, count |-> 0,
                        status |-> "failed", error |-> "TypeError",
                        fetched |-> fetched, scam_count |-> scam_count]
                  ELSE IF failPage > 0
                  THEN [made |-> TRUE, source |-> source,
                        count |-> Len(normalized), status |-> "failed",
                        error |-> "RequestException",
                        fetched |-> fetched, scam_count |-> scam_count]
                  ELSE [made |-> TRUE, source |-> source,
                        count |-> Len(normalized), status |-> "success",
                        error |-> NoneV,
                        fetched |-> fetched, scam_count |-> scam_count]
           /\ last_call' = IF incremental
                           THEN [made |-> TRUE, source |-> source,
                                 result |-> last_sync,
                                 failed |-> queryFails,
                                 hadRow |-> source \in DOMAIN sync_log,
                                 row_ts |-> IF source \in DOMAIN sync_log
                                            THEN sync_log[source].last_sync_ts
                                            ELSE 0]
                           ELSE NoCall
           /\ trace' = [trace EXCEPT
                  !.fetchFailed = @ \/ (failPage > 0 /\ incremental),
                  !.fetchOk = @ /\ failPage = 0]
    /\ chainIdx' = chainIdx + 1
    /\ pc' = IF chainIdx = Len(Chains) THEN "save" ELSE "chain"
    /\ UNCHANGED <<history, files, now, runNo, incremental, filter_scams,
                   files_before, xfiles, stVars, exVars, allVars>>

\* the save step of export_address_data, which ends the run
SavePartitions ==
    /\ pc = "save"
    /\ files' = IF all_transactions # <<>>
                THEN SavePartitionFiles(files, all_transactions)
                ELSE files
    /\ files_before' = files
    /\ pc' = "idle"
    /\ trace' = [trace EXCEPT !.saved = TRUE]
    /\ last_call' = NoCall
    /\ last_outcome' = NoOutcome
    /\ UNCHANGED <<history, sync_log, now, runNo, incremental, filter_scams,
                   chainIdx, all_transactions, faults, xfiles, stVars, exVars, allVars>>

\* the process is interrupted (KeyboardInterrupt, kill): the records it
\* holds in memory are gone, the sync_log stays as written, and so do the
\* files; written: the month files the save step had written when it was
\* interrupted (none when the chain loop was)
Cancel(written) ==
    /\ pc \in {"chain", "save"}
    /\ written <= IF pc = "save"
                  THEN Cardinality(SavedMonths(all_transactions)) ELSE 0
    /\ Events < MaxEvents
    /\ faults' = faults + 1
    /\ pc' = "idle"
    /\ files' = SavePartitionFilesUpTo(files, all_transactions, written)
    /\ files_before' = IF pc = "save" THEN files ELSE files_before
    /\ all_transactions' = <<>>
    /\ trace' = [trace EXCEPT !.cancelled = TRUE]
    /\ last_call' = NoCall
    /\ last_outcome' = NoOutcome
    /\ UNCHANGED <<history, sync_log, now, runNo, incremental,
                   filter_scams, chainIdx, xfiles, stVars, exVars, allVars>>

\* no statement recorded
NoStmt == [made |-> FALSE, table |-> NoneV, before |-> <<>>, batch |-> <<>>,
           after |-> <<>>, raised |-> FALSE]

\* the stager has not run: empty raw tables
StageIdle ==
    /\ raw = [t \in RawTables |-> <<>>]
    /\ raw_before = [t \in RawTables |-> <<>>]
    /\ reloads = [t \in RawTables |-> 0]
    /\ dup_raises = FALSE
    /\ last_stmt = NoStmt
    /\ disk_writes = 0

\* EVM_ADDRESSES
Addresses == <<"0xa1", "0xa2">>
AddrSet == Range(Addresses)

\* no normalizer call
NoNorm == [kind |-> NoneV, done |-> FALSE, out |-> 0]

\* export_all has not run
\* the curated tables before the first staging: no rows; rebuilds counts the
\* create_unified_table calls since the last staging (0..2), held is what
\* the last of them found in transactions_unified
NoCurated == [staged_exchanges |-> <<>>, staged_onchain |-> <<>>,
              transactions_unified |-> <<>>, held |-> <<>>, rebuilds |-> 0]

AllIdle ==
    /\ ahistory = [a \in AddrSet |-> [c \in ChainSet |-> <<>>]]
    /\ addrIdx = 1
    /\ sync_ops = <<>>
    /\ norm = NoNorm
    /\ curated = NoCurated

\* no export is running.  pc: where export_exchange is; got: the records the
\* export of entity has so far; cur: the number of the currency a coinbase
\* export is at; pending: the months save_to_csv has still to write;
\* raised: a request of export_trades raised an exception that ended the
\* loop; changed: the upstream changed since the export started
LoopIdle == [pc |-> "idle", exchange |-> NoneV, connected |-> FALSE,
             entity |-> NoneV, limit |-> 0, since |-> <<0, 0>>,
             got |-> <<>>, sleep |-> 0, cur |-> 0, pending |-> <<>>,
             raised |-> FALSE, changed |-> FALSE]

\* the currencies export_deposits and export_withdrawals probe on coinbase
Currencies == <<"EUR", "USD", "USDC", "EURC", "BTC", "ETH", "LINK">>
CurrencySet == Range(Currencies)
CoinEntities == {"deposits", "withdrawals"}

\* no coinbase export recorded
NoProbe == [made |-> FALSE, failed |-> [e \in CoinEntities |-> {}]]

\* the exchange exporter has not run: no exchange file, no trade upstream
ExchIdle ==
    /\ xfiles = <<>>
    /\ xhistory = <<>>
    /\ xfiles_before = <<>>
    /\ xruns = 0
    /\ loop = LoopIdle
    /\ chistory = [e \in CoinEntities |-> [c \in CurrencySet |-> <<>>]]
    /\ probe = NoProbe

Init ==
    /\ StageIdle
    /\ ExchIdle
    /\ AllIdle
    /\ history = [c \in ChainSet |-> <<>>]
    /\ files = <<>>
    /\ sync_log = <<>>
    /\ now = 0
    /\ runNo = 0
    /\ pc = "idle"
    /\ incremental = FALSE
    /\ filter_scams \in BOOLEAN
    /\ chainIdx = 1
    /\ all_transactions = <<>>
    /\ last_call = NoCall
    /\ last_outcome = NoOutcome
    /\ files_before = <<>>
    /\ faults = 0
    /\ trace = [cancelled |-> FALSE, changed |-> FALSE, saved |-> FALSE,
                fetchFailed |-> FALSE, fetchOk |-> TRUE,
                connFailed |-> FALSE]

Next ==
    \/ \E c \in ChainSet, id \in TxIds, scam \in BOOLEAN :
          UpstreamAdd(c, id, scam)
    \/ \E c \in ChainSet, id \in OldIds \cup NullIds :
          UpstreamAdd(c, id, FALSE)
    \/ \E c \in ChainSet, i \in 1..MaxEvents : UpstreamRevise(c, i)
    \/ \E requested \in BOOLEAN, connOk \in BOOLEAN :
          StartRun(requested, connOk)
    \/ \E failPage \in 0..1, queryFails \in BOOLEAN, writeFails \in BOOLEAN :
          ProcessChain(failPage, queryFails, writeFails)
    \/ SavePartitions
    \/ \E written \in 0..Cardinality(TxIds \cup OldIds) : Cancel(written)

vars == <<dbVars, xfiles, stVars, exVars, allVars>>

Spec == Init /\ [][Next]_vars

(***************************************************************************)
(* Properties of the DeBank exporter (checked under Spec).                 *)
(***************************************************************************)
Keys(rows) == {NaturalKey(rows[i]) : i \in DOMAIN rows}

StoredKeys == UNION {Keys(files[k]) : k \in DOMAIN files}

\* the rows of the run that the save step writes, and those of month k
SavedRows == DropNaT(all_transactions)
SavedGroup(k) == SelectSeq(SavedRows, LAMBDA r : YearMonth(r.block_timestamp) = k)

\* every upstream record of the chain that is not flagged as scam and is
\* newer than START_TS is in a partition file
AllStored(c) ==
    \A i \in DOMAIN history[c] :
        (~history[c][i].is_scam /\ history[c][i].time_at > StartTs)
            => <<c, history[c][i].id, NoneV>> \in StoredKeys

\* no transaction id occurs on two chains
NoIdClash ==
    \A i \in DOMAIN history["eth"], j \in DOMAIN history["matic"] :
        history["eth"][i].id # history["matic"][j].id

\* no upstream record has a null time_at
NoNullRecord ==
    \A c \in ChainSet : \A i \in DOMAIN history[c] :
        history[c][i].time_at # NullTimeAt

\* C2: after any sequence of export_address_data runs, every stored
\* partition file holds no two rows with the same natural key
\* (source, external_id, log_index).
C2_NoDuplicateNaturalKeys ==
    \A k \in DOMAIN files :
        \A i, j \in DOMAIN files[k] :
            NaturalKey(files[k][i]) = NaturalKey(files[k][j]) => i = j

\* C3: when the run saved a record whose natural key already existed in the
\* stored partition of its month, the merged partition holds the newly
\* fetched version of that record, not the stored one.
C3_NewWinsOnConflict ==
    trace.saved =>
        \A i \in DOMAIN SavedRows :
            LET r == SavedRows[i]
                k == YearMonth(r.block_timestamp)
            IN  (/\ k \in DOMAIN files_before
                 /\ NaturalKey(r) \in Keys(files_before[k])
                 /\ \A j \in DOMAIN SavedRows :
                       NaturalKey(SavedRows[j]) = NaturalKey(r)
                           => SavedRows[j] = r)
                => \A j \in DOMAIN files[k] :
                       NaturalKey(files[k][j]) = NaturalKey(r)
                           => files[k][j] = r

\* C4: the merge deduplicates on the full natural key: after a save, every
\* natural key of (stored partition) \cup (the run's records of that month)
\* is present in the partition, also when two records share a tx_hash and
\* differ in chain.
C4_MergeKeepsEveryNaturalKey ==
    trace.saved =>
        \A k \in DOMAIN files :
            /\ k \in DOMAIN files_before => Keys(files_before[k]) \subseteq Keys(files[k])
            /\ Keys(SavedGroup(k)) \subseteq Keys(files[k])

\* C7: in no reachable state has a run advanced the watermark of a source
\* while records it fetched for that source are not yet in partition
\* storage.
C7_WatermarkOnlyAfterMerge ==
    \A c \in ChainSet :
        (/\ Source(c) \in DOMAIN sync_log
         /\ sync_log[Source(c)].last_sync_ts = now)
        => \A i \in DOMAIN SavedRows :
               SavedRows[i].chain = c => NaturalKey(SavedRows[i]) \in StoredKeys

\* C8: after a fetch failed in an incremental run, a later incremental run
\* whose fetches all succeed leaves every upstream non-scam record newer
\* than START_TS in the partitions (upstream unchanged, no interruption).
C8_ResumableAfterFetchFailure ==
    (/\ pc = "idle" /\ trace.saved /\ incremental
     /\ trace.fetchOk /\ trace.fetchFailed
     /\ ~trace.cancelled /\ ~trace.changed /\ NoIdClash /\ NoNullRecord)
    => \A c \in ChainSet : AllStored(c)

\* C9: a cancelled run followed by a complete incremental run ends with the
\* records an uninterrupted run stores: every upstream non-scam record
\* newer than START_TS (upstream unchanged, no fetch failure).
C9_CancelledRunIsResumed ==
    (/\ pc = "idle" /\ trace.saved /\ incremental
     /\ trace.fetchOk /\ ~trace.fetchFailed
     /\ trace.cancelled /\ ~trace.changed /\ NoIdClash /\ NoNullRecord)
    => \A c \in ChainSet : AllStored(c)

\* C10 as stated: get_last_sync_timestamp returns START_TS when no sync_log
\* row exists for the source and otherwise exactly last_sync_ts - 3600,
\* never a value later than the stored last_sync_ts.
C10_Original ==
    last_call.made =>
        IF ~last_call.hadRow
        THEN last_call.result = StartTs
        ELSE /\ last_call.result = last_call.row_ts - 3600
             /\ last_call.result <= last_call.row_ts

\* C10 amended: when the sync_log query succeeds, get_last_sync_timestamp
\* returns START_TS if no row exists for the source and otherwise exactly
\* last_sync_ts - 3600 (so never later than the stored last_sync_ts); when
\* the query raises it returns START_TS whatever row is stored.
C10_LastSyncTimestamp ==
    last_call.made =>
        IF last_call.failed \/ ~last_call.hadRow
        THEN last_call.result = StartTs
        ELSE /\ last_call.result = last_call.row_ts - 3600
             /\ last_call.result <= last_call.row_ts

\* a call that found a stored row and returned its timestamp less the
\* overlap
C10_Witness ==
    /\ last_call.made /\ last_call.hadRow /\ ~last_call.failed
    /\ last_call.result = RunClock(1) - 3600

\* C11: a run recorded with status failed for a source leaves the value
\* get_last_sync_timestamp returns for that source as it was before the
\* run (the value the run itself read from the sync_log).
C11_FailedRunKeepsWatermark ==
    (/\ last_call.made /\ ~last_call.failed
     /\ last_call.source \in DOMAIN sync_log
     /\ sync_log[last_call.source].sync_status = "failed")
    => GetLastSyncTimestamp(last_call.source, FALSE) = last_call.result

\* C12: after every chain loop iteration of a run, incremental or full,
\* successful or failed, the sync_log row of the source carries that
\* iteration's record count, status and error message.
C12_OutcomePersisted ==
    last_outcome.made =>
        /\ last_outcome.source \in DOMAIN sync_log
        /\ sync_log[last_outcome.source].sync_count = last_outcome.count
        /\ sync_log[last_outcome.source].sync_status = last_outcome.status
        /\ sync_log[last_outcome.source].error_message = last_outcome.error

\* the records of a chain after the scam filter of export_address_data
NoScamOf(chain) == FilterScams(filter_scams, history[chain])

\* every record of a chain, normalized, in the order fetched
FullRangeOf(chain) ==
    [i \in 1..Len(NoScamOf(chain)) |-> NormalizeTransaction(NoScamOf(chain)[i])]

RECURSIVE FullRangeUpTo(_)
FullRangeUpTo(n) ==
    IF n = 0 THEN <<>> ELSE FullRangeUpTo(n - 1) \o FullRangeOf(Chains[n])

\* the last Len(suffix) elements of seq are suffix
EndsWith(seq, suffix) ==
    /\ Len(suffix) <= Len(seq)
    /\ SubSeq(seq, Len(seq) - Len(suffix) + 1, Len(seq)) = suffix

\* the records of a chain the incremental filter keeps against START_TS,
\* normalized, in the order fetched
NewerThanStartOf(chain) ==
    LET kept == SelectSeq(NoScamOf(chain), LAMBDA tx : tx.time_at > StartTs)
    IN  [i \in 1..Len(kept) |-> NormalizeTransaction(kept[i])]

\* an unflagged record of the chain has a null time_at
HasNullRecord(chain) ==
    \E i \in DOMAIN NoScamOf(chain) : NoScamOf(chain)[i].time_at = NullTimeAt

C15_WitnessKept ==
    /\ last_call.made /\ last_call.failed /\ trace.fetchOk
    /\ last_call.hadRow
    /\ NewerThanStartOf(Chains[chainIdx - 1]) # <<>>

\* the chain holds a record with a null time_at and was recorded as failed
C15_WitnessNull ==
    /\ last_call.made /\ last_call.failed /\ trace.fetchOk
    /\ HasNullRecord(Chains[chainIdx - 1])
    /\ last_outcome.status = "failed"

\* a second run whose connection failed has merged the records of both
\* chains, one of them older than START_TS, into the files of the first run
C15_WitnessConnFailed ==
    /\ trace.connFailed /\ pc = "idle" /\ trace.saved /\ trace.fetchOk
    /\ ~trace.cancelled /\ ~trace.changed
    /\ runNo = 2 /\ files_before # <<>>
    /\ \E c \in ChainSet : \E i \in DOMAIN NoScamOf(c) :
          NoScamOf(c)[i].id \in OldIds

\* C14: an incremental run that re-fetches records of the overlap window
\* whose natural keys are all stored already (each once) leaves the row
\* count of every partition file as it was.
C14_OverlapRefetchKeepsRowCount ==
    (/\ trace.saved /\ incremental /\ runNo >= 2
     /\ SavedRows # <<>>
     /\ \A i \in DOMAIN SavedRows :
           LET r == SavedRows[i]
               k == YearMonth(r.block_timestamp)
           IN  /\ k \in DOMAIN files_before
               /\ NaturalKey(r) \in Keys(files_before[k])
               /\ r.block_timestamp > RunClock(runNo - 1) - Overlap
               /\ r.block_timestamp <= RunClock(runNo - 1)
     /\ \A k \in DOMAIN files_before :
           \A i, j \in DOMAIN files_before[k] :
               NaturalKey(files_before[k][i]) = NaturalKey(files_before[k][j])
                   => i = j)
    => \A k \in DOMAIN files :
           /\ k \in DOMAIN files_before
           /\ Len(files[k]) = Len(files_before[k])

(***************************************************************************)
(* ExchangeExporter: export_trades, save_to_csv, export_exchange.          *)
(* The upstream is the trade list of one account of one exchange, in the   *)
(* order fetch_my_trades returns it (ascending by timestamp).  A trade is  *)
(*   [id, timestamp, ver]                                                  *)
(* A millisecond timestamp v is held as <<v \div 1000, v % 1000>>.         *)
(***************************************************************************)
Exchange == "binance"
TradeIds == {"t1", "t2", "t3"}
\* a trade's time in seconds: t1 at 2024-01-15T00:00:00Z, t2 at
\* 2024-01-20T00:00:00Z, t3 at 2024-02-10T00:00:00Z
TradeTime(id) ==
    IF id = "t1" THEN 1705276800
    ELSE IF id = "t2" THEN 1705708800 ELSE 1707523200

\* int(start_dt.timestamp() * 1000)
StartTimestampMs == <<ExchStartTs, 0>>

MsGeq(a, b) == a[1] > b[1] \/ (a[1] = b[1] /\ a[2] >= b[2])
\* v + 1
MsSucc(a) == IF a[2] = 999 THEN <<a[1] + 1, 0>> ELSE <<a[1], a[2] + 1>>

\* normalize_timestamp of an integer v = <<v \div 1000, v % 1000>>: above
\* 1e10 it is milliseconds, else seconds; the result is the UTC instant as
\* <<seconds, milliseconds>>
NormalizeTimestamp(v) ==
    IF v[1] > 10000000 \/ (v[1] = 10000000 /\ v[2] > 0)
    THEN v
    ELSE <<v[1] * 1000 + v[2], 0>>

\* a trade's symbol is held as the list symbol.split('/') gives, a missing
\* or empty symbol as the empty list
Symbols == {<<"BTC", "USDT">>, <<"BTCUSDT">>, <<>>}

\* trade.get('symbol', '').split('/')[1] raises IndexError: the symbol is
\* not empty and holds no '/'
NormalizeRaises(trade) == Len(trade.symbol) = 1

\* the dict export_trades builds from one trade
NormalizeTrade(exchange_name, trade) ==
    [source   |-> exchange_name,
     txid     |-> trade.id,
     datetime |-> NormalizeTimestamp(trade.timestamp),
     base     |-> IF trade.symbol # <<>> THEN trade.symbol[1] ELSE "",
     quote    |-> IF trade.symbol # <<>> THEN trade.symbol[2] ELSE "",
     raw_json |-> trade.ver]

\* for trade in batch: the dicts appended to trades before the loop ends or
\* a trade raises
NormalizeBatch(exchange_name, batch) ==
    LET bad == {i \in DOMAIN batch : NormalizeRaises(batch[i])}
        n   == IF bad = {} THEN Len(batch)
               ELSE (CHOOSE i \in bad : \A j \in bad : i <= j) - 1
    IN  [i \in 1..n |-> NormalizeTrade(exchange_name, batch[i])]

\* some trade of the batch raises: the except Exception branch breaks
BatchRaises(batch) == \E i \in DOMAIN batch : NormalizeRaises(batch[i])

\* client.fetch_my_trades(since, limit): the first limit trades at or after
\* since
FetchMyTrades(hist, since, limit) ==
    LET later == SelectSeq(hist, LAMBDA t : MsGeq(t.timestamp, since))
    IN  SubSeq(later, 1, Min(limit, Len(later)))

\* the while loop of export_trades; request number failAt raises an
\* exception that is neither RateLimitExceeded nor NetworkError
RECURSIVE ExportTradesLoop(_, _, _, _, _, _, _)
ExportTradesLoop(hist, exchange_name, since, limit, failAt, request, trades) ==
    IF request = failAt THEN trades
    ELSE LET batch == FetchMyTrades(hist, since, limit)
         IN  IF batch = <<>> THEN trades
             ELSE IF BatchRaises(batch)
             THEN trades \o NormalizeBatch(exchange_name, batch)
             ELSE ExportTradesLoop(hist, exchange_name,
                      MsSucc(batch[Len(batch)].timestamp), limit, failAt,
                      request + 1,
                      trades \o NormalizeBatch(exchange_name, batch))

ExportTrades(hist, exchange_name, limit, failAt) ==
    ExportTradesLoop(hist, exchange_name, StartTimestampMs, limit, failAt,
                     1, <<>>)

\* month_key of a record: dt.strftime('%Y-%m') of its datetime
MonthKey(record) == YearMonth(record.datetime[1])

\* save_to_csv groups the records by month: the months in the order of
\* their first record (monthly_data is a dict)
RECURSIVE MonthsOf(_)
MonthsOf(data) ==
    IF data = <<>> THEN <<>>
    ELSE LET rest == MonthsOf(SubSeq(data, 1, Len(data) - 1))
             m    == MonthKey(data[Len(data)])
         IN  IF m \in Range(rest) THEN rest ELSE Append(rest, m)

\* df.to_csv(exchange_dir / f"{month}.csv"): the month's file holds the
\* records of this run
ToCsv(f, data, exchange_name, entity_type, month) ==
    LET k == <<exchange_name, entity_type, month>>
    IN  [x \in (DOMAIN f) \cup {k} |->
            IF x = k
            THEN SelectSeq(data, LAMBDA r : MonthKey(r) = month)
            ELSE f[x]]

(***************************************************************************)
(* The upstream of export_deposits and export_withdrawals: the account's   *)
(* deposits and withdrawals per currency.  A record is [id, timestamp,     *)
(* ver].                                                                   *)
(***************************************************************************)
Coinbase == "coinbase"
CoinIds == {"d1", "d2"}
CoinLimit == 100

\* a record's time in seconds: d1 at 2024-01-15T00:00:00Z, d2 at
\* 2024-02-10T00:00:00Z
CoinTime(id) == IF id = "d1" THEN 1705276800 ELSE 1707523200

\* the dict export_deposits and export_withdrawals build from one record
NormalizeTransfer(exchange_name, entity, currency, rec) ==
    [source   |-> exchange_name,
     txid     |-> rec.id,
     datetime |-> NormalizeTimestamp(rec.timestamp),
     base     |-> currency,
     side     |-> IF entity = "deposits" THEN "deposit" ELSE "withdrawal",
     raw_json |-> rec.ver]

\* the records of the currencies from the n-th on, each with its currency
RECURSIVE CurrencyRecords(_, _)
CurrencyRecords(hist, n) ==
    IF n > Len(Currencies) THEN <<>>
    ELSE [i \in DOMAIN hist[Currencies[n]] |->
             [id        |-> hist[Currencies[n]][i].id,
              timestamp |-> hist[Currencies[n]][i].timestamp,
              ver       |-> hist[Currencies[n]][i].ver,
              currency  |-> Currencies[n]]]
         \o CurrencyRecords(hist, n + 1)

RECURSIVE SortByTimestamp(_)
SortByTimestamp(s) ==
    IF s = <<>> THEN <<>>
    ELSE LET rest == SortByTimestamp(Tail(s))
         IN  SelectSeq(rest, LAMBDA o :
                 ~MsGeq(o.timestamp, Head(s).timestamp))
             \o <<Head(s)>>
             \o SelectSeq(rest, LAMBDA o :
                 MsGeq(o.timestamp, Head(s).timestamp))

\* client.fetch_deposits(since, limit) and client.fetch_withdrawals(since,
\* limit) without a currency code: the records of all currencies, ascending
\* by timestamp
FetchTransfers(hist, since, limit) ==
    FetchMyTrades(SortByTimestamp(CurrencyRecords(hist, 1)), since, limit)

\* upstream records so far; a failed request of an export counts with them
CoinEvents ==
    Cardinality({k \in CoinEntities \X CurrencySet \X (1..Cardinality(CoinIds)) :
                    k[3] \in DOMAIN chistory[k[1]][k[2]]})

(***************************************************************************)
(* export_exchange, one request and one file write at a time: the loop of  *)
(* export_trades, save_to_csv, the loop of export_deposits, save_to_csv,   *)
(* the loop of export_withdrawals, save_to_csv.  Between two steps the     *)
(* exchange may book a trade, a deposit or a withdrawal.                   *)
(***************************************************************************)
Entities == {"trades", "deposits", "withdrawals"}

\* what a request does: it returns a batch, or raises RateLimitExceeded,
\* NetworkError, or another exception
Responses == {"batch", "RateLimitExceeded", "NetworkError", "Exception"}

RateLimitSleep == 60
NetworkSleep == 30

\* the upstream changes while an export runs or after it
UpstreamChanged == [loop EXCEPT !.changed = @ \/ loop.pc # "idle"]

\* the exchange executes a trade of the account
ExchangeTrade(id, symbol) ==
    /\ \A i \in DOMAIN xhistory : xhistory[i].id # id
    /\ LET t   == [id |-> id, timestamp |-> <<TradeTime(id), 0>>,
                   symbol |-> symbol, ver |-> 1]
           old == SelectSeq(xhistory, LAMBDA o : TradeTime(o.id) < TradeTime(id))
           new == SelectSeq(xhistory, LAMBDA o : TradeTime(o.id) > TradeTime(id))
       IN  xhistory' = old \o <<t>> \o new
    /\ loop' = UpstreamChanged
    /\ UNCHANGED <<dbVars, xfiles, stVars, xfiles_before, xruns,
                   chistory, probe, allVars>>

\* the exchange books a deposit or a withdrawal of the account
ExchangeTransfer(entity, currency, id) ==
    /\ CoinEvents < MaxCoinEvents
    /\ \A i \in DOMAIN chistory[entity][currency] :
           chistory[entity][currency][i].id # id
    /\ LET hist == chistory[entity][currency]
           t   == [id |-> id, timestamp |-> <<CoinTime(id), 0>>, ver |-> 1]
           old == SelectSeq(hist, LAMBDA o : CoinTime(o.id) < CoinTime(id))
           new == SelectSeq(hist, LAMBDA o : CoinTime(o.id) > CoinTime(id))
       IN  chistory' = [chistory EXCEPT ![entity][currency] =
                           old \o <<t>> \o new]
    /\ loop' = UpstreamChanged
    /\ UNCHANGED <<dbVars, xfiles, stVars, xhistory, xfiles_before, xruns,
                   probe, allVars>>

\* export_exchange up to the first request: get_exchange_client, then
\* export_trades sets since = start_timestamp.  connected: the credentials
\* are set and load_markets succeeded; if not, export_exchange returns
ExportStart(exchange_name, batch_size, connected) ==
    /\ loop.pc \in {"idle", "done"}
    /\ xruns < MaxExchRuns
    /\ xruns' = xruns + 1
    /\ xfiles_before' = xfiles
    /\ probe' = NoProbe
    /\ loop' = IF connected
               THEN [LoopIdle EXCEPT !.pc = "request",
                                     !.exchange = exchange_name,
                                     !.connected = TRUE,
                                     !.entity = "trades",
                                     !.limit = batch_size,
                                     !.since = StartTimestampMs,
                                     !.cur = 1]
               ELSE [LoopIdle EXCEPT !.pc = "done",
                                     !.exchange = exchange_name]
    /\ UNCHANGED <<dbVars, xfiles, stVars, xhistory, chistory, allVars>>

\* save_to_csv of the entity l.entity has returned: the next export, or
\* the end of export_exchange
NextEntity(l) ==
    IF l.entity = "withdrawals"
    THEN [l EXCEPT !.pc = "done", !.entity = NoneV, !.limit = 0,
                   !.since = <<0, 0>>, !.got = <<>>, !.cur = 0,
                   !.pending = <<>>]
    ELSE [l EXCEPT !.pc = "request",
                   !.entity = IF l.entity = "trades" THEN "deposits"
                              ELSE "withdrawals",
                   !.since = StartTimestampMs, !.got = <<>>, !.cur = 1,
                   !.pending = <<>>]

\* the export of l.entity returns l.got and save_to_csv starts: with no
\* data it returns at once
LoopReturns(l) ==
    IF l.got = <<>> THEN NextEntity(l)
    ELSE [l EXCEPT !.pc = "save", !.pending = MonthsOf(l.got)]

\* one pass of the while loop of export_trades up to the break, the
\* continue or the end of the body
TradesRequest(l, response) ==
    LET batch == FetchMyTrades(xhistory, l.since, l.limit)
    IN  IF response = "RateLimitExceeded"
        THEN [l EXCEPT !.pc = "sleep", !.sleep = RateLimitSleep]
        ELSE IF response = "NetworkError"
        THEN [l EXCEPT !.pc = "sleep", !.sleep = NetworkSleep]
        ELSE IF response = "Exception"
        THEN LoopReturns([l EXCEPT !.raised = TRUE])
        ELSE IF batch = <<>>
        THEN LoopReturns(l)
        ELSE IF BatchRaises(batch)
        THEN LoopReturns([l EXCEPT
                 !.got = @ \o NormalizeBatch(l.exchange, batch)])
        ELSE [l EXCEPT !.got = @ \o NormalizeBatch(l.exchange, batch),
                       !.since = MsSucc(batch[Len(batch)].timestamp)]

\* one pass of the while loop of export_deposits or export_withdrawals on
\* an exchange other than coinbase
TransfersRequest(l, response) ==
    LET batch == FetchTransfers(chistory[l.entity], l.since, l.limit)
    IN  IF response = "RateLimitExceeded"
        THEN [l EXCEPT !.pc = "sleep", !.sleep = RateLimitSleep]
        ELSE IF response = "NetworkError"
        THEN [l EXCEPT !.pc = "sleep", !.sleep = NetworkSleep]
        ELSE IF response = "Exception"
        THEN LoopReturns(l)
        ELSE IF batch = <<>>
        THEN LoopReturns(l)
        ELSE [l EXCEPT
                 !.got = @ \o [i \in DOMAIN batch |->
                                  NormalizeTransfer(l.exchange, l.entity,
                                      batch[i].currency, batch[i])],
                 !.since = MsSucc(batch[Len(batch)].timestamp)]

\* for currency in currencies: the number of the currency after the n-th,
\* whose request raised or not (except Exception: continue)
NextCurrency_Break(n, raised) == IF raised THEN Len(Currencies) + 1 ELSE n + 1

NextCurrency(n, raised) == n + 1

\* one pass of the currency loop of export_deposits or export_withdrawals
\* on coinbase: any exception of the request skips the currency
CurrencyRequest(l, response) ==
    LET currency == Currencies[l.cur]
        batch == FetchMyTrades(chistory[l.entity][currency],
                               StartTimestampMs, CoinLimit)
        next  == NextCurrency(l.cur, response # "batch")
        after == IF response # "batch" THEN l
                 ELSE [l EXCEPT
                          !.got = @ \o [i \in DOMAIN batch |->
                                           NormalizeTransfer(l.exchange,
                                               l.entity, currency, batch[i])]]
    IN  IF next > Len(Currencies) THEN LoopReturns(after)
        ELSE [after EXCEPT !.cur = next]

\* the request failures of the coinbase export so far
CoinFailures ==
    Cardinality(probe.failed["deposits"])
        + Cardinality(probe.failed["withdrawals"])

\* rate_limit_wait and one request of the export
ExportRequest(response) ==
    /\ loop.pc = "request"
    /\ IF loop.entity = "trades"
       THEN /\ loop' = TradesRequest(loop, response)
            /\ probe' = [probe EXCEPT !.made = (loop'.pc = "done")]
       ELSE IF loop.exchange # Coinbase
       THEN /\ loop' = TransfersRequest(loop, response)
            /\ probe' = [probe EXCEPT !.made = (loop'.pc = "done")]
       ELSE /\ response # "batch"
                => CoinEvents + CoinFailures < MaxCoinEvents
            /\ loop' = CurrencyRequest(loop, response)
            /\ probe' = [made   |-> (loop'.pc = "done"),
                         failed |-> IF response = "batch" THEN probe.failed
                                    ELSE [probe.failed EXCEPT
                                             ![loop.entity] =
                                                 @ \cup {Currencies[loop.cur]}]]
    /\ UNCHANGED <<dbVars, xfiles, stVars, xhistory, xfiles_before, xruns,
                   chistory, allVars>>

\* time.sleep returns; continue
LoopWake ==
    /\ loop.pc = "sleep"
    /\ loop' = [loop EXCEPT !.pc = "request", !.sleep = 0]
    /\ UNCHANGED <<dbVars, xfiles, stVars, xhistory, xfiles_before, xruns,
                   chistory, probe, allVars>>

\* one pass of the month loop of save_to_csv: one file written
ExportSave ==
    /\ loop.pc = "save"
    /\ xfiles' = ToCsv(xfiles, loop.got, loop.exchange, loop.entity,
                       Head(loop.pending))
    /\ loop' = IF Tail(loop.pending) = <<>> THEN NextEntity(loop)
               ELSE [loop EXCEPT !.pending = Tail(@)]
    /\ probe' = [probe EXCEPT !.made = (loop'.pc = "done")]
    /\ UNCHANGED <<dbVars, stVars, xhistory, xfiles_before, xruns,
                   chistory, allVars>>

LoopStep ==
    \/ \E response \in Responses : ExportRequest(response)
    \/ LoopWake
    \/ ExportSave

(***************************************************************************)
(* DuckDBStager: load_exchange_data and load_onchain_data.                 *)
(***************************************************************************)
\* PRIMARY KEY of a raw table: (chain, tx_hash, log_index) for
\* raw_onchain_transfers, (source, txid) for raw_exchanges_<entity>
PrimaryKey(table, r) ==
    IF table = "raw_onchain_transfers"
    THEN <<r.chain, r.tx_hash, r.log_index>>
    ELSE <<r.source, r.txid>>

\* _clean_onchain_data on the rows of one CSV file: log_index read as NaN
\* becomes 0, the columns of raw_onchain_transfers are kept
CleanOnchainData(rows) ==
    [i \in DOMAIN rows |->
        [chain           |-> rows[i].chain,
         tx_hash         |-> rows[i].tx_hash,
         log_index       |-> IF rows[i].log_index = NoneV THEN 0
                             ELSE rows[i].log_index,
         block_timestamp |-> rows[i].block_timestamp,
         raw_json        |-> rows[i].raw_json]]


\* a datetime cell that pd.to_datetime cannot parse
Unparseable == <<-1, 0>>

\* pd.to_datetime(df['datetime'], utc=True) raises: a cell of the column
\* cannot be parsed
CleanExchangeRaises(rows) ==
    \E i \in DOMAIN rows : rows[i].datetime = Unparseable

\* _clean_exchange_data on the rows of one file: the key and data columns of
\* raw_exchanges_<entity> are kept
CleanExchangeData(rows) ==
    [i \in DOMAIN rows |->
        [source   |-> rows[i].source,
         txid     |-> rows[i].txid,
         datetime |-> rows[i].datetime,
         raw_json |-> rows[i].raw_json]]

\* a plain INSERT: the row is appended whatever the table holds
UpsertRow_PlainInsert(table, rows, r) == Append(rows, r)

\* INSERT OR IGNORE: a stored row with the same key is kept
UpsertRow_Ignore(table, rows, r) ==
    IF \E i \in DOMAIN rows : PrimaryKey(table, rows[i]) = PrimaryKey(table, r)
    THEN rows
    ELSE Append(rows, r)

\* INSERT OR REPLACE of one row: the stored row with the same primary key
\* is replaced, else the row is added
UpsertRow(table, rows, r) ==
    IF \E i \in DOMAIN rows : PrimaryKey(table, rows[i]) = PrimaryKey(table, r)
    THEN [i \in DOMAIN rows |->
             IF PrimaryKey(table, rows[i]) = PrimaryKey(table, r)
             THEN r ELSE rows[i]]
    ELSE Append(rows, r)

RECURSIVE UpsertRows(_, _, _)
UpsertRows(table, rows, batch) ==
    IF batch = <<>> THEN rows
    ELSE UpsertRows(table, UpsertRow(table, rows, Head(batch)), Tail(batch))

HasDuplicateKey(table, batch) ==
    \E i, j \in DOMAIN batch :
        i # j /\ PrimaryKey(table, batch[i]) = PrimaryKey(table, batch[j])

\* the statement raised for this batch (the file is skipped by the except
\* clause): DuckDB builds that refuse to update a row twice in one command
BatchRejected(table, batch) == dup_raises /\ HasDuplicateKey(table, batch)

\* INSERT OR REPLACE INTO table SELECT ... FROM temp_df: one statement per
\* file, atomic
InsertOrReplace(table, rows, batch) ==
    IF BatchRejected(table, batch) THEN rows ELSE UpsertRows(table, rows, batch)

\* list(raw_data_dir.glob(...)): the files ks in the order of the directory
\* entries, which the file system decides: any order
GlobOrders(ks) ==
    {o \in [1..Cardinality(ks) -> ks] :
        \A i \in DOMAIN o : \A j \in DOMAIN o : i # j => o[i] # o[j]}

\* table_name = f"raw_exchanges_{entity}" of the file k
ExchangeTable(k) == "raw_exchanges_" \o k[2]

\* the file loop of load_onchain_data over the files in the order given
RECURSIVE LoadOnchainFiles(_, _)
LoadOnchainFiles(rows, order) ==
    IF order = <<>> THEN rows
    ELSE LoadOnchainFiles(
             InsertOrReplace("raw_onchain_transfers", rows,
                             CleanOnchainData(files[Head(order)])),
             Tail(order))

\* the file loop of load_exchange_data over the files in the order given:
\* each file is upserted into the table of its entity
RECURSIVE LoadExchangeFiles(_, _)
LoadExchangeFiles(tables, order) ==
    IF order = <<>> THEN tables
    ELSE LET k == Head(order)
         IN  IF CleanExchangeRaises(xfiles[k])
             \* except Exception: the file is logged and skipped
             THEN LoadExchangeFiles(tables, Tail(order))
             ELSE LoadExchangeFiles(
                      [tables EXCEPT ![ExchangeTable(k)] =
                          InsertOrReplace(ExchangeTable(k), @,
                                          CleanExchangeData(xfiles[k]))],
                      Tail(order))

\* the statement executed for a file: the table before, the batch, the
\* table after, whether the statement raised
Statement(table, before, batch) ==
    [made   |-> TRUE,
     table  |-> table,
     before |-> before,
     batch  |-> batch,
     after  |-> InsertOrReplace(table, before, batch),
     raised |-> BatchRejected(table, batch)]

\* the statement of the last file of a load
LastOnchainStatement(rows, order) ==
    IF order = <<>> THEN NoStmt
    ELSE Statement("raw_onchain_transfers",
                   LoadOnchainFiles(rows, SubSeq(order, 1, Len(order) - 1)),
                   CleanOnchainData(files[order[Len(order)]]))

\* (a file whose cleaning raised executes no statement)
LastExchangeStatement(tables, order) ==
    LET cleaned == SelectSeq(order, LAMBDA k : ~CleanExchangeRaises(xfiles[k]))
    IN  IF cleaned = <<>> THEN NoStmt
        ELSE LET k == cleaned[Len(cleaned)]
             IN  Statement(ExchangeTable(k),
                           LoadExchangeFiles(tables,
                               SubSeq(cleaned, 1, Len(cleaned) - 1))
                                   [ExchangeTable(k)],
                           CleanExchangeData(xfiles[k]))

Bump(n) == IF n < 2 THEN n + 1 ELSE 2

\* load_onchain_data; order: the order in which glob yields the files
LoadOnchainData(order) ==
    /\ raw' = [raw EXCEPT !["raw_onchain_transfers"] =
                  LoadOnchainFiles(@, order)]
    /\ raw_before' = [raw_before EXCEPT !["raw_onchain_transfers"] =
                         raw["raw_onchain_transfers"]]
    /\ reloads' = [reloads EXCEPT !["raw_onchain_transfers"] = Bump(@)]
    /\ last_stmt' = LastOnchainStatement(raw["raw_onchain_transfers"], order)
    /\ UNCHANGED <<dbVars, xfiles, dup_raises, disk_writes, exVars, allVars>>

\* load_exchange_data; order: the order in which glob yields the files
LoadExchangeData(order) ==
    LET loaded == {ExchangeTable(order[i]) : i \in DOMAIN order}
    IN  /\ raw' = LoadExchangeFiles(raw, order)
        /\ raw_before' = [t \in RawTables |->
                             IF t \in loaded THEN raw[t] ELSE raw_before[t]]
        /\ reloads' = [t \in RawTables |->
                          IF t \in loaded THEN Bump(reloads[t])
                          ELSE reloads[t]]
        /\ last_stmt' = LastExchangeStatement(raw, order)
        /\ UNCHANGED <<dbVars, xfiles, dup_raises, disk_writes, exVars, allVars>>

(***************************************************************************)
(* Between two loads the exporters run and write the raw CSV files: the    *)
(* save step of export_address_data merges the run's records into the      *)
(* on-chain partitions, save_to_csv writes the month files of an exchange  *)
(* with the run's records.  The stager sees the files a run leaves.        *)
(***************************************************************************)
\* the API returns a chain's history newest first
TxNewestFirst == <<"0xh2", "0xh1">>

\* all_transactions of a run of the DeBank exporter in which the API
\* returned the transactions of DOMAIN snapshot (pairs of chain and id),
\* each as the snapshot given: for chain in chains, the chain's records in
\* the order of the API
RECURSIVE RunTransactions(_, _)
RunTransactions(snapshot, n) ==
    IF n > Len(Chains) THEN <<>>
    ELSE LET ids == SelectSeq(TxNewestFirst,
                        LAMBDA id : <<Chains[n], id>> \in DOMAIN snapshot)
         IN  [i \in DOMAIN ids |->
                 NormalizeTransaction([id |-> ids[i], chain |-> Chains[n],
                     time_at |-> TimeAt(ids[i]), is_scam |-> FALSE,
                     ver |-> snapshot[<<Chains[n], ids[i]>>]])]
             \o RunTransactions(snapshot, n + 1)

\* the save step of a run of the DeBank exporter whose all_transactions
\* are rows
DiskSaveOnchain(rows) ==
    /\ disk_writes < MaxDiskEvents
    /\ rows # <<>>
    /\ disk_writes' = disk_writes + 1
    /\ files' = SavePartitionFiles(files, rows)
    /\ reloads' = [reloads EXCEPT !["raw_onchain_transfers"] = 0]
    /\ UNCHANGED <<history, sync_log, now, runNo, pc, incremental,
                   filter_scams, chainIdx, all_transactions, last_call, last_outcome,
                   files_before, faults, trace, xfiles, raw, raw_before,
                   dup_raises, last_stmt, exVars, allVars>>

\* the list export_trades returns for the trades of DOMAIN snapshot, each
\* as the snapshot gives it, ascending by time
RunTrades(snapshot) ==
    LET sel == SelectSeq(<<"t1", "t2", "t3">>,
                         LAMBDA id : id \in DOMAIN snapshot)
    IN  [i \in DOMAIN sel |->
            NormalizeTrade(Exchange,
                [id |-> sel[i], timestamp |-> <<TradeTime(sel[i]), 0>>,
                 symbol |-> <<"BTC", "USDT">>, ver |-> snapshot[sel[i]]])]

\* the list export_deposits returns for the BTC deposits ids
RunDeposits(ids) ==
    LET sel == SelectSeq(<<"d1", "d2">>, LAMBDA id : id \in ids)
    IN  [i \in DOMAIN sel |->
            NormalizeTransfer(Exchange, "deposits", "BTC",
                [id |-> sel[i], timestamp |-> <<CoinTime(sel[i]), 0>>,
                 ver |-> 1])]

\* save_to_csv: every month of the data written to its file
RECURSIVE SaveToCsv(_, _, _, _, _)
SaveToCsv(f, data, exchange_name, entity_type, months) ==
    IF months = <<>> THEN f
    ELSE SaveToCsv(ToCsv(f, data, exchange_name, entity_type, Head(months)),
                   data, exchange_name, entity_type, Tail(months))

\* save_to_csv of a run of the exchange exporter whose export of
\* entity_type returned data
DiskSaveExchange(entity_type, data) ==
    /\ disk_writes < MaxDiskEvents
    /\ data # <<>>
    /\ disk_writes' = disk_writes + 1
    /\ xfiles' = SaveToCsv(xfiles, data, Exchange, entity_type,
                           MonthsOf(data))
    /\ reloads' = [reloads EXCEPT !["raw_exchanges_" \o entity_type] = 0]
    /\ UNCHANGED <<dbVars, raw, raw_before, dup_raises, last_stmt, exVars,
                   allVars>>

\* the DeBank exporter is not running
DebankIdle ==
    /\ history = [c \in ChainSet |-> <<>>]
    /\ files = <<>>
    /\ sync_log = <<>>
    /\ now = 0
    /\ runNo = 0
    /\ pc = "idle"
    /\ incremental = FALSE
    /\ filter_scams = TRUE
    /\ chainIdx = 1
    /\ all_transactions = <<>>
    /\ last_call = NoCall
    /\ last_outcome = NoOutcome
    /\ files_before = <<>>
    /\ faults = 0
    /\ trace = [cancelled |-> FALSE, changed |-> FALSE, saved |-> FALSE,
                fetchFailed |-> FALSE, fetchOk |-> TRUE,
                connFailed |-> FALSE]

InitStage ==
    /\ DebankIdle
    /\ ExchIdle
    /\ AllIdle
    /\ raw = [t \in RawTables |-> <<>>]
    /\ raw_before = [t \in RawTables |-> <<>>]
    /\ reloads = [t \in RawTables |-> 0]
    /\ dup_raises \in BOOLEAN
    /\ last_stmt = NoStmt
    /\ disk_writes = 0

\* the DeBank exporter runs between the loads of the on-chain files
\* the runs explored: of any of the chains' records, each in its first or
\* its second snapshot
OnchainRuns ==
    {RunTransactions(snapshot, 1) :
        snapshot \in UNION {[p -> 1..2] : p \in SUBSET (ChainSet \X TxIds)}}

NextStage ==
    \/ \E rows \in OnchainRuns : DiskSaveOnchain(rows)
    \/ \E order \in GlobOrders(DOMAIN files) : LoadOnchainData(order)

SpecStage == InitStage /\ [][NextStage]_vars

\* data/raw/exchanges when the stager is first run: empty, or holding a
\* trades file that was not written by save_to_csv, with a row whose
\* datetime cell does not parse after a row whose cell does
RawExchangeDirs ==
    {<<>>,
     [k \in {<<Exchange, "trades", YearMonth(TradeTime("t1"))>>} |->
         <<RunTrades([id \in {"t1"} |-> 1])[1],
           [RunTrades([id \in {"t2"} |-> 1])[1]
               EXCEPT !.datetime = Unparseable]>>]}

InitStageExchange ==
    /\ DebankIdle
    /\ xfiles \in RawExchangeDirs
    /\ xhistory = <<>>
    /\ xfiles_before = <<>>
    /\ xruns = 0
    /\ loop = LoopIdle
    /\ chistory = [e \in CoinEntities |-> [c \in CurrencySet |-> <<>>]]
    /\ probe = NoProbe
    /\ AllIdle
    /\ raw = [t \in RawTables |-> <<>>]
    /\ raw_before = [t \in RawTables |-> <<>>]
    /\ reloads = [t \in RawTables |-> 0]
    /\ dup_raises \in BOOLEAN
    /\ last_stmt = NoStmt
    /\ disk_writes = 0

\* the exchange exporter runs between the loads of the exchange files; the
\* trades of a run are of one snapshot
TradeRuns ==
    {RunTrades([id \in ids |-> ver]) : ids \in SUBSET TradeIds, ver \in 1..2}

NextStageExchange ==
    \/ \E data \in TradeRuns : DiskSaveExchange("trades", data)
    \/ \E order \in GlobOrders(DOMAIN xfiles) : LoadExchangeData(order)

SpecStageExchange == InitStageExchange /\ [][NextStageExchange]_vars

(***************************************************************************)
(* The curated layer: create_staged_tables and create_unified_table.  A    *)
(* staged row keeps the columns the raw rows of the model have; ts_utc is  *)
(* <<seconds, milliseconds>>, year and month are held as one pair.         *)
(***************************************************************************)
\* the SELECT over raw_exchanges_trades
StageExchangeRow(r) ==
    [domain   |-> "exchange",
     source   |-> r.source,
     ts_utc   |-> r.datetime,
     txid     |-> r.txid,
     chain    |-> "",
     raw_json |-> r.raw_json,
     ym       |-> YearMonth(r.datetime[1])]

\* the SELECT over raw_onchain_transfers
StageOnchainRow(r) ==
    [domain   |-> "onchain",
     source   |-> Source(r.chain),
     ts_utc   |-> <<r.block_timestamp, 0>>,
     txid     |-> r.tx_hash,
     chain    |-> r.chain,
     raw_json |-> r.raw_json,
     ym       |-> IF r.block_timestamp = NaT THEN <<0, 0>>
                  ELSE YearMonth(r.block_timestamp)]

\* create_staged_tables: both staged tables are emptied and filled from the
\* raw tables (rows with a txid)
CreateStagedTables ==
    /\ LET trades == SelectSeq(raw["raw_exchanges_trades"],
                               LAMBDA r : r.txid \notin {NoneV, ""})
           transfers == SelectSeq(raw["raw_onchain_transfers"],
                                  LAMBDA r : r.tx_hash \notin {NoneV, ""})
       IN  curated' = [curated EXCEPT
               !.staged_exchanges =
                   [i \in DOMAIN trades |-> StageExchangeRow(trades[i])],
               !.staged_onchain =
                   [i \in DOMAIN transfers |-> StageOnchainRow(transfers[i])],
               !.rebuilds = 0]
    /\ UNCHANGED <<dbVars, xfiles, stVars, exVars, ahistory, addrIdx,
                   sync_ops, norm>>

\* a rebuild that inserts without the DELETE
RebuildUnified_NoDelete(held, staged_exchanges, staged_onchain) ==
    held \o staged_exchanges \o staged_onchain

\* DELETE FROM transactions_unified, then INSERT ... SELECT * FROM
\* staged_exchanges UNION ALL SELECT * FROM staged_onchain
RebuildUnified(held, staged_exchanges, staged_onchain) ==
    staged_exchanges \o staged_onchain

\* create_unified_table
CreateUnifiedTable ==
    /\ curated' = [curated EXCEPT
           !.transactions_unified =
               RebuildUnified(@, curated.staged_exchanges,
                              curated.staged_onchain),
           !.held = curated.transactions_unified,
           !.rebuilds = Bump(@)]
    /\ UNCHANGED <<dbVars, xfiles, stVars, exVars, ahistory, addrIdx,
                   sync_ops, norm>>

\* the steps of the stager's run (load, stage, unify) between changes of the
\* raw files; the on-chain rows are of one chain, the trades of two months
NextUnify ==
    \/ \E id \in TxIds :
          \E rows \in {RunTransactions([p \in {<<"eth", id>>} |-> 1], 1)} :
             DiskSaveOnchain(rows)
    \/ \E id \in {"t1", "t3"} :
          \E data \in {RunTrades([t \in {id} |-> 1])} :
             DiskSaveExchange("trades", data)
    \/ \E order \in GlobOrders(DOMAIN files) : LoadOnchainData(order)
    \/ \E order \in GlobOrders(DOMAIN xfiles) : LoadExchangeData(order)
    \/ CreateStagedTables
    \/ CreateUnifiedTable

SpecUnify == InitStage /\ [][NextUnify]_vars

\* the same steps over a raw directory that also receives a deposits file
NextCurate ==
    \/ \E id \in TxIds :
          \E rows \in {RunTransactions([p \in {<<"eth", id>>} |-> 1], 1)} :
             DiskSaveOnchain(rows)
    \/ \E id \in TradeIds :
          \E data \in {RunTrades([t \in {id} |-> 1])} :
             DiskSaveExchange("trades", data)
    \/ \E data \in {RunDeposits({"d1"})} : DiskSaveExchange("deposits", data)
    \/ \E order \in GlobOrders(DOMAIN files) : LoadOnchainData(order)
    \/ \E order \in GlobOrders(DOMAIN xfiles) : LoadExchangeData(order)
    \/ CreateStagedTables
    \/ CreateUnifiedTable

SpecCurate == InitStage /\ [][NextCurate]_vars

InitExch ==
    /\ DebankIdle
    /\ StageIdle
    /\ ExchIdle
    /\ AllIdle

\* an export of the binance account, whose upstream changes between the
\* steps; the account has deposits in BTC and no withdrawals
NextExch ==
    \/ \E id \in TradeIds, symbol \in Symbols : ExchangeTrade(id, symbol)
    \/ \E id \in CoinIds : ExchangeTransfer("deposits", "BTC", id)
    \/ \E batch_size \in BatchSizes, connected \in BOOLEAN :
          ExportStart(Exchange, batch_size, connected)
    \/ \E response \in Responses : ExportRequest(response)
    \/ LoopWake
    \/ ExportSave

SpecExch == InitExch /\ [][NextExch]_vars

\* C19: an export whose trade requests raise nothing, of an upstream that
\* did not change meanwhile, exports every trade whose normalization does
\* not raise, whatever other trades the account holds.
C19_OnlyBadRecordDropped ==
    (/\ loop.pc = "done"
     /\ loop.connected
     /\ ~loop.raised
     /\ ~loop.changed)
        => \A i \in DOMAIN xhistory :
               ~NormalizeRaises(xhistory[i])
               => LET k == <<loop.exchange, "trades",
                             YearMonth(xhistory[i].timestamp[1])>>
                  IN  /\ k \in DOMAIN xfiles
                      /\ \E j \in DOMAIN xfiles[k] :
                            xfiles[k][j].txid = xhistory[i].id

\* an export of the coinbase account, which has no trades; its deposits and
\* withdrawals are in the last currency of the list
NextCoin ==
    \/ \E entity \in CoinEntities, id \in CoinIds :
          ExchangeTransfer(entity, "LINK", id)
    \/ \E connected \in BOOLEAN :
          \* any batch size does the same: the currency requests have
          \* limit=100
          ExportStart(Coinbase, CHOOSE b \in BatchSizes : TRUE, connected)
    \/ \E response \in Responses : ExportRequest(response)
    \/ LoopWake
    \/ ExportSave

SpecCoin == InitExch /\ [][NextCoin]_vars

\* C18: after a coinbase export in which the request failed for some
\* currencies, every deposit and withdrawal of every other currency (as the
\* account held them throughout the export) is in the exported files.
C18_OtherCurrenciesKept ==
    (probe.made /\ loop.exchange = Coinbase /\ ~loop.changed) =>
        \A e \in CoinEntities : \A c \in CurrencySet \ probe.failed[e] :
            \A i \in DOMAIN chistory[e][c] :
                LET rec == chistory[e][c][i]
                    k == <<Coinbase, e, YearMonth(rec.timestamp[1])>>
                IN  /\ k \in DOMAIN xfiles
                    /\ \E j \in DOMAIN xfiles[k] :
                          /\ xfiles[k][j].txid = rec.id
                          /\ xfiles[k][j].base = c

\* the request for EUR deposits failed and the account has a LINK deposit;
\* the request for USD withdrawals failed and it has a LINK withdrawal
C18_Witness ==
    /\ probe.made
    /\ loop.exchange = Coinbase
    /\ ~loop.changed
    /\ "EUR" \in probe.failed["deposits"]
    /\ chistory["deposits"]["LINK"] # <<>>

C18_WitnessWithdrawals ==
    /\ probe.made
    /\ loop.exchange = Coinbase
    /\ ~loop.changed
    /\ "USD" \in probe.failed["withdrawals"]
    /\ chistory["withdrawals"]["LINK"] # <<>>

\* the process that runs the export is scheduled: an export that can take
\* a step takes one
SpecLoop == InitExch /\ [][NextExch]_vars /\ WF_vars(LoopStep)

\* C17: every fetch loop terminates, whatever the upstream does: a loop of
\* export_trades, export_deposits or export_withdrawals that has started
\* reaches its end.
C17_FetchLoopsTerminate ==
    \A e \in Entities :
        (loop.pc = "request" /\ loop.entity = e)
            ~> ~(loop.pc \in {"request", "sleep"} /\ loop.entity = e)

(***************************************************************************)
(* export_all over several addresses: the address loop around the chain    *)
(* loop and the save step of export_address_data.  Every address has its   *)
(* own upstream history per chain; the sync_log source of a chain is       *)
(* "debank_<chain>" for every address.                                     *)
(***************************************************************************)
RECURSIVE SumLen(_, _)
SumLen(f, ks) ==
    IF ks = {} THEN 0
    ELSE LET k == CHOOSE x \in ks : TRUE
         IN  Len(f[k[1]][k[2]]) + SumLen(f, ks \ {k})

\* upstream records and failures so far
AllEvents == SumLen(ahistory, AddrSet \X ChainSet) + faults

AllUpstreamAdd(address, chain, id) ==
    /\ pc = "idle"
    /\ AllEvents < MaxAllEvents
    /\ ahistory' = [ahistory EXCEPT ![address][chain] =
          InsertNewestFirst(@, [id |-> id, chain |-> chain,
                                time_at |-> TimeAt(id),
                                is_scam |-> FALSE, ver |-> 1])]
    /\ trace' = [trace EXCEPT !.changed = @ \/ runNo > 0]
    /\ UNCHANGED <<history, files, sync_log, now, runNo, pc, incremental,
                   filter_scams, chainIdx, all_transactions, last_call,
                   last_outcome, files_before, faults, xfiles, stVars, exVars,
                   addrIdx, sync_ops, norm, curated>>

\* DeBankExporter(incremental=requested) with a working sync_log
\* connection, then export_all
AllStartRun(requested) ==
    /\ pc = "idle"
    /\ runNo < MaxRuns
    /\ runNo' = runNo + 1
    /\ now' = RunClock(runNo + 1)
    /\ incremental' = requested
    /\ addrIdx' = 1
    /\ chainIdx' = 1
    /\ all_transactions' = <<>>
    /\ sync_ops' = <<>>
    /\ pc' = "chain"
    /\ UNCHANGED <<history, files, sync_log, filter_scams, last_call,
                   last_outcome, files_before, faults, trace, xfiles, stVars,
                   exVars, ahistory, norm, curated>>

\* one iteration of the chain loop for the address export_all is at
AllProcessChain ==
    /\ pc = "chain"
    /\ LET address == Addresses[addrIdx]
           chain   == Chains[chainIdx]
           source  == Source(chain)
           fetched == GetUserHistory(ahistory[address][chain], PageCount,
                                     MaxPages, 0)
           noScam == FilterScams(filter_scams, fetched)
           last_sync == GetLastSyncTimestamp(source, FALSE)
           transactions ==
               IF incremental /\ noScam # <<>>
               THEN SelectSeq(noScam, LAMBDA tx : tx.time_at > last_sync)
               ELSE noScam
           normalized == [i \in 1..Len(transactions) |->
                             NormalizeTransaction(transactions[i])]
           read  == [op |-> "read", source |-> source]
           write == [op |-> "write", source |-> source]
       IN  /\ all_transactions' = all_transactions \o normalized
           /\ sync_log' = UpdateSyncLog(source, Len(normalized), "success",
                                        NoneV, FALSE)
           /\ sync_ops' = IF incremental
                          THEN sync_ops \o <<read>>
                                   \o (IF noScam # <<>> THEN <<read>> ELSE <<>>)
                                   \o <<write>>
                          ELSE sync_ops
    /\ chainIdx' = chainIdx + 1
    /\ pc' = IF chainIdx = Len(Chains) THEN "save" ELSE "chain"
    /\ UNCHANGED <<history, files, now, runNo, incremental, filter_scams,
                   last_call, last_outcome, files_before, faults, trace,
                   xfiles, stVars, exVars, ahistory, addrIdx, norm, curated>>

\* the save step for the address, then the next address of export_all;
\* failAt > 0: reading or writing the failAt-th partition file raises,
\* which export_all catches; the files written before it stay
AllSavePartitions(failAt) ==
    /\ pc = "save"
    /\ failAt > 0 => /\ failAt <= Cardinality(SavedMonths(all_transactions))
                     /\ AllEvents < MaxAllEvents
    /\ faults' = faults + B2N(failAt > 0)
    /\ files' = IF all_transactions = <<>> THEN files
                ELSE IF failAt > 0
                THEN SavePartitionFilesUpTo(files, all_transactions,
                                            failAt - 1)
                ELSE SavePartitionFiles(files, all_transactions)
    /\ files_before' = files
    /\ trace' = [trace EXCEPT !.saved = (failAt = 0)]
    /\ IF addrIdx < Len(Addresses)
       THEN /\ addrIdx' = addrIdx + 1
            /\ chainIdx' = 1
            /\ all_transactions' = <<>>
            /\ pc' = "chain"
       ELSE /\ pc' = "idle"
            /\ UNCHANGED <<addrIdx, chainIdx, all_transactions>>
    /\ UNCHANGED <<history, sync_log, now, runNo, incremental, filter_scams,
                   last_call, last_outcome, xfiles, stVars, exVars, ahistory,
                   sync_ops, norm, curated>>

InitAll ==
    /\ DebankIdle
    /\ StageIdle
    /\ ExchIdle
    /\ AllIdle

NextAll ==
    \/ \E a \in AddrSet, c \in ChainSet, id \in TxIds : AllUpstreamAdd(a, c, id)
    \/ \E requested \in BOOLEAN : AllStartRun(requested)
    \/ AllProcessChain
    \/ \E failAt \in 0..Cardinality(TxIds) : AllSavePartitions(failAt)

SpecAll == InitAll /\ [][NextAll]_vars

\* the writes of a source's sync_log row in the run
Writes(source) ==
    {i \in DOMAIN sync_ops :
        sync_ops[i].op = "write" /\ sync_ops[i].source = source}
Reads(source) ==
    {i \in DOMAIN sync_ops :
        sync_ops[i].op = "read" /\ sync_ops[i].source = source}

\* C13: in one incremental export_all run the sync_log row of each source
\* is written exactly once, and every read of it precedes that write.
C13_WrittenOnceReadFirst ==
    (pc = "idle" /\ runNo > 0 /\ incremental)
    => \A c \in ChainSet :
           /\ Cardinality(Writes(Source(c))) = 1
           /\ \A r \in Reads(Source(c)), w \in Writes(Source(c)) : r < w

\* C16: in a first export_all run in which the save step of the first
\* address raised, every record of the second address is stored when
\* the run ends.
C16_LaterAddressStored ==
    (/\ pc = "idle" /\ runNo = 1 /\ faults = 1
     /\ trace.saved /\ ~trace.changed)
    => \A c \in ChainSet :
           \A i \in DOMAIN ahistory[Addresses[2]][c] :
               \E k \in DOMAIN files : \E j \in DOMAIN files[k] :
                   files[k][j].tx_hash = ahistory[Addresses[2]][c][i].id

\* C37: after a first incremental run without failures, the record count
\* in the sync_log row of each source equals the number of records of that
\* source the run wrote to the partition files, all addresses included.
C37_SyncCountIsWritten ==
    (/\ pc = "idle" /\ runNo = 1 /\ incremental /\ faults = 0
     /\ ~trace.changed)
    => \A c \in ChainSet :
           /\ Source(c) \in DOMAIN sync_log
           /\ sync_log[Source(c)].sync_count =
                  Cardinality({<<k, j>> \in
                      UNION {{k} \X DOMAIN files[k] : k \in DOMAIN files} :
                          files[k][j].chain = c})

\* C33: in one incremental run every address is filtered against the
\* watermark stored when the run started: after a first run without
\* failures, every unflagged record of every address newer than START_TS is
\* stored.
C33_SameWatermarkForEveryAddress ==
    (/\ pc = "idle" /\ runNo = 1 /\ incremental /\ faults = 0
     /\ trace.saved /\ ~trace.changed)
    => \A a \in AddrSet, c \in ChainSet :
           \A i \in DOMAIN ahistory[a][c] :
               (/\ ~ahistory[a][c][i].is_scam
                /\ ahistory[a][c][i].time_at > StartTs) =>
                   \E k \in DOMAIN files : \E j \in DOMAIN files[k] :
                       /\ files[k][j].tx_hash = ahistory[a][c][i].id
                       /\ files[k][j].chain = c

(***************************************************************************)
(* The normalizers as functions: normalize_transaction (its category       *)
(* inference and the fields it derives from the legs), normalize_amount    *)
(* and normalize_timestamp.  The input of a call is drawn when the         *)
(* behaviour starts; the call then returns.                                *)
(***************************************************************************)
\* a leg of sends or receives: token_id, amount, and to_addr (of a send) or
\* from_addr (of a receive)
Legs == {[token_id |-> "X", amount |-> 5,  addr |-> "0xp"],
         [token_id |-> "X", amount |-> -5, addr |-> "0xq"],
         [token_id |-> "Y", amount |-> 7,  addr |-> "0xq"],
         [token_id |-> "Y", amount |-> -7, addr |-> "0xp"]}

\* tx.get('token_approve'): absent, or a grant
Grants == {[present |-> FALSE, token_id |-> "", value |-> 0, spender |-> ""]}
          \cup {[present |-> TRUE, token_id |-> t, value |-> v,
                 spender |-> "0xs"] : t \in {"X", "Y"}, v \in {-3, 0, 3}}

\* the lists of at most n legs
RECURSIVE LegSeqs(_)
LegSeqs(n) ==
    IF n = 0 THEN {<<>>}
    ELSE LegSeqs(n - 1)
         \cup {Append(q, l) : q \in {x \in LegSeqs(n - 1) : Len(x) = n - 1},
                              l \in Legs}

\* the raw records normalize_transaction is called with: cate_id is absent or
\* the source's category; tx.from_addr and tx.to_addr are "0xfrom" and "0xto"
\* in all of them
TxInputs ==
    [cate_id : {NoneV, "approve", "deposit", "send"},
     sends : LegSeqs(MaxLegs), receives : LegSeqs(MaxLegs),
     token_approve : Grants]

\* get_token_info(token_id, chain)['symbol'] (one symbol per token)
TokenSymbol(token_id) == IF token_id = "X" THEN "SYMX" ELSE "SYMY"

\* a categorization that looks at the category hint alone
IsApprove_HintOnly(tx) == tx.cate_id = "approve"

\* the first branch of the categorization is taken
IsApprove(tx) == tx.cate_id = "approve" \/ tx.token_approve.present

\* a categorization that labels by the hint what it cannot infer from the
\* grant and the legs
Action_HintForUnknown(tx) ==
    IF IsApprove(tx) THEN "approve"
    ELSE IF tx.sends # <<>> /\ tx.receives # <<>> THEN "swap"
    ELSE IF tx.sends # <<>>
         THEN (IF tx.cate_id # "deposit" THEN "send" ELSE "deposit")
    ELSE IF tx.receives # <<>> THEN "receive"
    ELSE IF tx.cate_id = NoneV THEN "unknown"
    ELSE "hint"

\* action
Action(tx) ==
    IF IsApprove(tx) THEN "approve"
    ELSE IF tx.sends # <<>> /\ tx.receives # <<>> THEN "swap"
    ELSE IF tx.sends # <<>>
         THEN (IF tx.cate_id # "deposit" THEN "send" ELSE "deposit")
    ELSE IF tx.receives # <<>> THEN "receive"
    ELSE "unknown"

\* a normalizer that reads the last leg instead of the first
PrimaryLeg_Last(legs) == legs[Len(legs)]

\* the leg the branch taken reads: sends[0] or receives[0]
PrimaryLeg(legs) == legs[1]

\* what normalize_transaction derives from the grant and the legs:
\* token_id, amount, from_address, to_address
Categorize(tx) ==
    LET none == [token_id |-> "", amount |-> 0, from_address |-> "0xfrom",
                 to_address |-> "0xto"]
        a == Action(tx)
    IN  IF a = "approve"
        THEN (IF tx.token_approve.present
              THEN [none EXCEPT !.token_id = tx.token_approve.token_id,
                                !.amount = tx.token_approve.value,
                                !.to_address = tx.token_approve.spender]
              ELSE none)
        ELSE IF a \in {"swap", "send", "deposit"}
        THEN [none EXCEPT !.token_id = PrimaryLeg(tx.sends).token_id,
                          !.amount = PrimaryLeg(tx.sends).amount,
                          !.to_address = PrimaryLeg(tx.sends).addr]
        ELSE IF a = "receive"
        THEN [none EXCEPT !.token_id = PrimaryLeg(tx.receives).token_id,
                          !.amount = PrimaryLeg(tx.receives).amount,
                          !.from_address = PrimaryLeg(tx.receives).addr]
        ELSE none

\* the dict normalize_transaction returns (the fields the legs decide)
NormalizeLegs(tx) ==
    LET c == Categorize(tx)
    IN  [contract_address |-> c.token_id,
         from_address     |-> c.from_address,
         to_address       |-> c.to_address,
         \* abs(amount) if amount else 0
         value            |-> IF c.amount < 0 THEN -c.amount ELSE c.amount,
         token_symbol     |-> IF c.token_id # "" THEN TokenSymbol(c.token_id)
                              ELSE "",
         tx_type          |-> Action(tx),
         side             |-> Action(tx)]

\* normalize_amount(amount): float(amount), and 0.0 for None
NormalizeAmount(amount) == IF ~amount.present THEN 0 ELSE amount.v

\* a normalizer whose millisecond threshold is 1e9
NormalizeTimestampInt_LowThreshold(n) ==
    IF n[1] > 1000 \/ (n[1] = 1000 /\ (n[2] > 0 \/ n[3] > 0))
    THEN n
    ELSE <<n[1] * 1000 + n[2], n[3], 0>>

\* normalize_timestamp of an integer beyond 32 bits: n = <<a, b, c>> stands
\* for a * 10^6 + b * 10^3 + c (b, c < 1000). Above 1e10 n is milliseconds,
\* else seconds; the result is the UTC instant in milliseconds, in the same
\* form.
NormalizeTimestampInt(n) ==
    IF n[1] > 10000 \/ (n[1] = 10000 /\ (n[2] > 0 \/ n[3] > 0))
    THEN n
    ELSE <<n[1] * 1000 + n[2], n[3], 0>>

\* normalize_transaction(tx, address) returns
NormTransaction ==
    /\ norm.kind = "transaction" /\ ~norm.done
    /\ norm' = [norm EXCEPT !.done = TRUE, !.out = NormalizeLegs(norm.tx)]
    /\ UNCHANGED <<dbVars, xfiles, stVars, exVars, ahistory, addrIdx,
                   sync_ops, curated>>

\* the amount of a trade, deposit or withdrawal dict is built
NormAmount ==
    /\ norm.kind = "amount" /\ ~norm.done
    /\ norm' = [norm EXCEPT !.done = TRUE, !.out = NormalizeAmount(norm.amount)]
    /\ UNCHANGED <<dbVars, xfiles, stVars, exVars, ahistory, addrIdx,
                   sync_ops, curated>>

\* normalize_timestamp(s) and normalize_timestamp(1000 * s) return
NormTimestamp ==
    /\ norm.kind = "timestamp" /\ ~norm.done
    /\ norm' = [norm EXCEPT
                   !.done = TRUE,
                   !.out = [s  |-> NormalizeTimestampInt(norm.s),
                            ms |-> NormalizeTimestampInt(
                                       <<norm.s[1] * 1000 + norm.s[2],
                                         norm.s[3], 0>>)]]
    /\ UNCHANGED <<dbVars, xfiles, stVars, exVars, ahistory, addrIdx,
                   sync_ops, curated>>

\* normalize_timestamp of a value that is no number and no parseable string
\* (None, 'not-a-date'): the attribute access or fromisoformat raises, and
\* the except branch returns datetime.now(timezone.utc); clock is that
\* instant in seconds. The result is <<seconds, milliseconds>>.
NormalizeTimestampBad(timestamp, clock) == <<clock, 0>>

\* normalize_timestamp(timestamp) returns, for a timestamp that is missing
\* or cannot be parsed
NormBadTimestamp ==
    /\ norm.kind = "bad_timestamp" /\ ~norm.done
    /\ norm' = [norm EXCEPT
                   !.done = TRUE,
                   !.out = NormalizeTimestampBad(norm.timestamp, norm.clock)]
    /\ UNCHANGED <<dbVars, xfiles, stVars, exVars, ahistory, addrIdx,
                   sync_ops, curated>>

(***************************************************************************)
(* The first run over a given upstream, in full and in incremental mode.   *)
(***************************************************************************)
\* the record user/history_list holds for the transaction
UpstreamTx(chain, id) ==
    [id |-> id, chain |-> chain,
     time_at |-> TimeAt(id),
     is_scam |-> FALSE, ver |-> 1]

\* the histories of a chain, newest first
ChainHistories(chain) ==
    LET newestFirst == <<"0xh2", "0xh1", "0xold">>
        pick(S) == SelectSeq(newestFirst, LAMBDA id : id \in S)
    IN  {[i \in DOMAIN pick(S) |-> UpstreamTx(chain, pick(S)[i])] :
            S \in SUBSET Range(newestFirst)}

\* export_address_data in full mode over the upstream hist, no partition
\* stored before: the partition files it leaves
FullRunFiles(hist) ==
    LET per(chain) ==
            LET transactions ==
                    FilterScams(filter_scams,
                        GetUserHistory(hist[chain], PageCount, MaxPages, 0))
            IN  [i \in DOMAIN transactions |->
                    NormalizeTransaction(transactions[i])]
        all == per(Chains[1]) \o per(Chains[2])
    IN  IF all # <<>> THEN SavePartitionFiles(<<>>, all) ELSE <<>>

InitModes ==
    /\ files = <<>>
    /\ sync_log = <<>>
    /\ now = 0
    /\ runNo = 0
    /\ pc = "idle"
    /\ incremental = FALSE
    /\ filter_scams = TRUE
    /\ chainIdx = 1
    /\ all_transactions = <<>>
    /\ last_call = NoCall
    /\ last_outcome = NoOutcome
    /\ files_before = <<>>
    /\ faults = 0
    /\ trace = [cancelled |-> FALSE, changed |-> FALSE, saved |-> FALSE,
                fetchFailed |-> FALSE, fetchOk |-> TRUE,
                connFailed |-> FALSE]
    /\ StageIdle
    /\ ExchIdle
    /\ AllIdle
    /\ history \in {h \in [ChainSet -> UNION {ChainHistories(c) : c \in ChainSet}] :
                       /\ \A c \in ChainSet : h[c] \in ChainHistories(c)
                       /\ Len(h["eth"]) + Len(h["matic"]) <= MaxEvents}

NextModes ==
    \/ \E requested \in BOOLEAN, connOk \in BOOLEAN :
          StartRun(requested, connOk)
    \/ ProcessChain(0, FALSE, FALSE)
    \/ SavePartitions

SpecModes == InitModes /\ [][NextModes]_vars

(***************************************************************************)
(* export_trades over an account whose trades may share a millisecond.     *)
(***************************************************************************)
\* the accounts asked for: up to three trades t1, t2, t3 in upstream order,
\* each at 2024-01-15T00:00:00Z or 2024-01-20T00:00:00Z, times non-decreasing
TradeHistories ==
    {h \in UNION {[1..n -> {1705276800, 1705708800}] : n \in 0..3} :
        \A i \in DOMAIN h : \A j \in DOMAIN h : i <= j => h[i] <= h[j]}

\* the trades fetch_my_trades pages through for the account h
TradesOf(h) ==
    [i \in DOMAIN h |->
        [id |-> IF i = 1 THEN "t1" ELSE IF i = 2 THEN "t2" ELSE "t3",
         timestamp |-> <<h[i], 0>>, symbol |-> <<"BTC", "USDT">>, ver |-> 1]]

\* export_trades(client, exchange_name) with no request failing
ExportTradesCall ==
    /\ norm.kind = "trades" /\ ~norm.done
    /\ norm' = [norm EXCEPT
                   !.done = TRUE,
                   !.out = ExportTrades(TradesOf(norm.hist), Exchange,
                                        norm.batch_size, 0)]
    /\ UNCHANGED <<dbVars, xfiles, stVars, exVars, ahistory, addrIdx,
                   sync_ops, curated>>

(***************************************************************************)
(* get_user_history, one iteration of its while loop at a time.            *)
(***************************************************************************)
\* the histories asked for: up to four transactions, newest first, each at
\* 2024-02-09T23:30:00Z or 2024-01-15T00:00:00Z
UserHistories ==
    {h \in UNION {[1..n -> {1707521400, 1705276800}] : n \in 0..4} :
        \A i \in DOMAIN h : \A j \in DOMAIN h : i <= j => h[i] >= h[j]}

\* the records user/history_list holds for the history h
HistoryOf(h) ==
    [i \in DOMAIN h |->
        [id |-> IF i = 1 THEN "0xp1" ELSE IF i = 2 THEN "0xp2"
                ELSE IF i = 3 THEN "0xp3" ELSE "0xp4",
         chain |-> "eth", time_at |-> h[i], is_scam |-> FALSE, ver |-> 1]]

\* a cursor that always takes the time_at of the first record of the page
NextCursor_First(history_list) == history_list[1].time_at

\* last_tx = history_list[-1]; current_start_time = last_tx.get('time_at')
NextCursor(history_list) == history_list[Len(history_list)].time_at

\* one iteration of the while loop: the request is sent with the cursor
\* current_start_time; it raises when fails, else its page is appended
HistoryPage(fails) ==
    /\ norm.kind = "history" /\ ~norm.done
    /\ norm.pages_fetched < norm.max_pages
    /\ LET history_list == ApiPage(HistoryOf(norm.hist),
                                   norm.current_start_time, norm.page_count)
           sent == [norm EXCEPT !.cursors = Append(@, norm.current_start_time)]
           got  == [sent EXCEPT
                       !.all_transactions = @ \o history_list,
                       !.pages_fetched = @ + 1]
       IN  norm' =
             IF fails THEN [sent EXCEPT !.done = TRUE, !.failed = TRUE]
             ELSE IF history_list = <<>> THEN [sent EXCEPT !.done = TRUE]
             ELSE IF Len(history_list) < norm.page_count
             THEN [got EXCEPT !.done = TRUE]
             ELSE IF NextCursor(history_list) \in {0, NullTimeAt}
             THEN [got EXCEPT !.current_start_time = NextCursor(history_list),
                              !.done = TRUE]
             ELSE [got EXCEPT !.current_start_time = NextCursor(history_list),
                              !.done = got.pages_fetched >= norm.max_pages]
    /\ UNCHANGED <<dbVars, xfiles, stVars, exVars, ahistory, addrIdx,
                   sync_ops, curated>>

(***************************************************************************)
(* get_block_from_timestamp of the on-chain exporter.  A chain is the list *)
(* of its block timestamps: block n has timestamp blocks[n + 1].           *)
(***************************************************************************)
\* chains of one to four blocks with non-decreasing timestamps
BlockChains ==
    {b \in UNION {[1..n -> {100, 200, 300}] : n \in 1..4} :
        \A i \in DOMAIN b : \A j \in DOMAIN b : i <= j => b[i] <= b[j]}

\* the while loop of the binary search
RECURSIVE BlockSearch(_, _, _, _)
BlockSearch(blocks, timestamp, low, high) ==
    IF low > high THEN high
    ELSE LET mid == (low + high) \div 2
             mid_timestamp == blocks[mid + 1]
         IN  IF mid_timestamp < timestamp
             THEN BlockSearch(blocks, timestamp, mid + 1, high)
             ELSE IF mid_timestamp > timestamp
             THEN BlockSearch(blocks, timestamp, low, mid - 1)
             ELSE mid

\* get_block_from_timestamp(timestamp) with a connected w3 and no request
\* failing
GetBlockFromTimestamp(blocks, timestamp) ==
    LET current_block == Len(blocks) - 1
        current_timestamp == blocks[current_block + 1]
    IN  IF timestamp > current_timestamp
        THEN current_block
        ELSE BlockSearch(blocks, timestamp, 0, current_block)

GetBlockCall ==
    /\ norm.kind = "block" /\ ~norm.done
    /\ norm' = [norm EXCEPT
                   !.done = TRUE,
                   !.out = GetBlockFromTimestamp(norm.blocks, norm.timestamp)]
    /\ UNCHANGED <<dbVars, xfiles, stVars, exVars, ahistory, addrIdx,
                   sync_ops, curated>>

(***************************************************************************)
(* Token metadata: get_token_info and the exporter's token_cache.          *)
(***************************************************************************)
\* the asset identifiers asked for: USDC as the table spells it, USDC in
\* upper case, and DAI, which the table does not hold
TokenIds == {"0xa0b86991c6218b36c1d19d4a2e9eb0ce3606eb48",
             "0xA0B86991C6218B36C1D19D4A2E9EB0CE3606EB48",
             "0x6b175474e89094c44da98b954eedeac495271d0f"}

\* token_id.lower()
TokenIdLower(token_id) ==
    IF token_id = "0xA0B86991C6218B36C1D19D4A2E9EB0CE3606EB48"
    THEN "0xa0b86991c6218b36c1d19d4a2e9eb0ce3606eb48"
    ELSE token_id

\* token_id[:8]
TokenIdPrefix(token_id) ==
    IF token_id = "0xa0b86991c6218b36c1d19d4a2e9eb0ce3606eb48" THEN "0xa0b869"
    ELSE IF token_id = "0xA0B86991C6218B36C1D19D4A2E9EB0CE3606EB48"
    THEN "0xA0B869"
    ELSE "0x6b1754"

\* known_tokens
KnownTokens ==
    [t \in {"0xa0b86991c6218b36c1d19d4a2e9eb0ce3606eb48",
            "0xaf88d065e77c8cc2239327c5edb3a432268e5831",
            "0xdac17f958d2ee523a2206206994597c13d831ec7",
            "0xc02aaa39b223fe8d0a0e5c4f27ead9083c756cc2",
            "0x82af49447d8a07e3bd95bd0d56f35241523fbab1"} |->
        IF t \in {"0xa0b86991c6218b36c1d19d4a2e9eb0ce3606eb48",
                  "0xaf88d065e77c8cc2239327c5edb3a432268e5831"}
        THEN [symbol |-> "USDC", name |-> "USD Coin", decimals |-> 6]
        ELSE IF t = "0xdac17f958d2ee523a2206206994597c13d831ec7"
        THEN [symbol |-> "USDT", name |-> "Tether USD", decimals |-> 6]
        ELSE [symbol |-> "WETH", name |-> "Wrapped Ether", decimals |-> 18]]

\* what the /token request does: status 200 with the token's data, another
\* status, or status 0 for a request that raises
TokenResponses ==
    {[status |-> 200, symbol |-> "DAI", name |-> "Dai", decimals |-> 18],
     [status |-> 200, symbol |-> "DAI2", name |-> "Dai", decimals |-> 8],
     [status |-> 404, symbol |-> "", name |-> "", decimals |-> 0],
     [status |-> 0, symbol |-> "", name |-> "", decimals |-> 0]}

\* a get_token_info that does not cache the fallback
GetTokenInfo_FallbackNotCached(token_cache, api_key, token_id, chain, response) ==
    LET cache_key == <<chain, token_id>>
        fallback  == [symbol |-> TokenIdPrefix(token_id), name |-> "Unknown",
                      decimals |-> 18]
        fetched   == [symbol |-> response.symbol, name |-> response.name,
                      decimals |-> response.decimals]
        put(info) == [k \in (DOMAIN token_cache) \cup {cache_key} |->
                         IF k = cache_key THEN info ELSE token_cache[k]]
    IN  IF cache_key \in DOMAIN token_cache
        THEN [info |-> token_cache[cache_key], token_cache |-> token_cache,
              requested |-> FALSE]
        ELSE IF TokenIdLower(token_id) \in DOMAIN KnownTokens
        THEN [info |-> KnownTokens[TokenIdLower(token_id)],
              token_cache |-> put(KnownTokens[TokenIdLower(token_id)]),
              requested |-> FALSE]
        ELSE IF ~api_key
        THEN [info |-> fallback, token_cache |-> token_cache,
              requested |-> FALSE]
        ELSE IF response.status = 200
        THEN [info |-> fetched, token_cache |-> put(fetched),
              requested |-> TRUE]
        ELSE [info |-> fallback, token_cache |-> token_cache,
              requested |-> TRUE]

\* get_token_info(token_id, chain): the info returned, the cache after the
\* call, and whether the /token request was sent
GetTokenInfo(token_cache, api_key, token_id, chain, response) ==
    LET cache_key == <<chain, token_id>>
        fallback  == [symbol |-> TokenIdPrefix(token_id), name |-> "Unknown",
                      decimals |-> 18]
        fetched   == [symbol |-> response.symbol, name |-> response.name,
                      decimals |-> response.decimals]
        put(info) == [k \in (DOMAIN token_cache) \cup {cache_key} |->
                         IF k = cache_key THEN info ELSE token_cache[k]]
    IN  IF cache_key \in DOMAIN token_cache
        THEN [info |-> token_cache[cache_key], token_cache |-> token_cache,
              requested |-> FALSE]
        ELSE IF TokenIdLower(token_id) \in DOMAIN KnownTokens
        THEN [info |-> KnownTokens[TokenIdLower(token_id)],
              token_cache |-> put(KnownTokens[TokenIdLower(token_id)]),
              requested |-> FALSE]
        ELSE IF ~api_key
        THEN [info |-> fallback, token_cache |-> token_cache,
              requested |-> FALSE]
        ELSE IF response.status = 200
        THEN [info |-> fetched, token_cache |-> put(fetched),
              requested |-> TRUE]
        ELSE [info |-> fallback, token_cache |-> put(fallback),
              requested |-> TRUE]

\* one get_token_info call of the exporter; the call and what it did are
\* appended to norm.calls
TokenInfoCall(token_id, chain, response) ==
    /\ norm.kind = "token"
    /\ Len(norm.calls) < MaxTokenCalls
    /\ LET r == GetTokenInfo(norm.token_cache, norm.api_key, token_id, chain,
                             response)
       IN  norm' = [norm EXCEPT
               !.token_cache = r.token_cache,
               !.out = r.info,
               !.calls = Append(@, [token_id |-> token_id, chain |-> chain,
                                    status |-> IF r.requested
                                               THEN response.status ELSE -1,
                                    requested |-> r.requested,
                                    info |-> r.info])]
    /\ UNCHANGED <<dbVars, xfiles, stVars, exVars, ahistory, addrIdx,
                   sync_ops, curated>>

InitNorm ==
    /\ DebankIdle
    /\ StageIdle
    /\ ExchIdle
    /\ ahistory = [a \in AddrSet |-> [c \in ChainSet |-> <<>>]]
    /\ addrIdx = 1
    /\ sync_ops = <<>>
    /\ curated = NoCurated
    /\ norm \in {[kind |-> "transaction", done |-> FALSE, out |-> 0,
                   tx |-> t] : t \in TxInputs}
           \* the amounts a source reports: None, or a number
           \cup {[kind |-> "amount", done |-> FALSE, out |-> 0,
                   amount |-> [present |-> p, v |-> v]] :
                       p \in BOOLEAN, v \in {-5, 0, 5}}
           \* instants in seconds: 5, 1e7, 1e7 + 1, 1.7e9, 1e10, 1e10 + 1, 2e10
           \cup {[kind |-> "timestamp", done |-> FALSE, out |-> 0, s |-> n] :
                   n \in {<<0, 0, 5>>, <<10, 0, 0>>, <<10, 0, 1>>,
                          <<1700, 0, 0>>, <<10000, 0, 0>>, <<10000, 0, 1>>,
                          <<20000, 0, 0>>}}
           \* a missing and an unparseable timestamp, at the time of a run
           \cup {[kind |-> "bad_timestamp", done |-> FALSE, out |-> 0,
                   timestamp |-> t, clock |-> RunClock(r)] :
                   t \in {NoneV, "not-a-date"}, r \in 1..2}
           \* an exporter with an empty token cache, with or without
           \* DEBANK_API_KEY
           \cup {[kind |-> "token", done |-> FALSE, out |-> 0,
                   token_cache |-> <<>>, api_key |-> k, calls |-> <<>>] :
                   k \in BOOLEAN}
           \* an account's trades and the BATCH_SIZE they are fetched with
           \cup {[kind |-> "trades", done |-> FALSE, out |-> 0,
                   hist |-> h, batch_size |-> b] :
                   h \in TradeHistories, b \in BatchSizes}
           \* a history, and the page_count and max_pages it is fetched with
           \cup {[kind |-> "history", done |-> FALSE, out |-> 0,
                   hist |-> h, page_count |-> n, max_pages |-> m,
                   all_transactions |-> <<>>, current_start_time |-> 0,
                   pages_fetched |-> 0, cursors |-> <<>>, failed |-> FALSE] :
                   h \in UserHistories, n \in {1, 2}, m \in {1, 2, 3}}
           \* a chain and the timestamp whose block is asked for
           \cup {[kind |-> "block", done |-> FALSE, out |-> 0,
                   blocks |-> b, timestamp |-> t] :
                   b \in BlockChains,
                   t \in {50, 100, 150, 200, 250, 300, 350}}

NextNorm ==
    \/ NormTransaction
    \/ NormAmount
    \/ NormTimestamp
    \/ NormBadTimestamp
    \/ ExportTradesCall
    \/ GetBlockCall
    \/ \E fails \in BOOLEAN : HistoryPage(fails)
    \/ \E token_id \in TokenIds, chain \in ChainSet,
          response \in TokenResponses :
              TokenInfoCall(token_id, chain, response)

SpecNorm == InitNorm /\ [][NextNorm]_vars

\* C21: every record a normalizer emits has amount >= 0: the value of
\* normalize_transaction, and the amount normalize_amount gives the trade,
\* deposit and withdrawal dicts.
C21_AmountNonNegative ==
    norm.done =>
        /\ norm.kind = "transaction" => norm.out.value >= 0
        /\ norm.kind = "amount" => norm.out >= 0

\* C22 as stated: a record with no approval grant, outgoing legs and no
\* incoming leg yields send (deposit when the hint is deposit) with the
\* amount and asset of the first outgoing leg; a record with only incoming
\* legs yields receive with the amount and asset of the first incoming leg.
C22_Original ==
    (norm.kind = "transaction" /\ norm.done
        /\ ~norm.tx.token_approve.present) =>
        LET tx == norm.tx
            o  == norm.out
        IN  /\ (tx.sends # <<>> /\ tx.receives = <<>>) =>
                   /\ o.side = (IF tx.cate_id = "deposit" THEN "deposit"
                                ELSE "send")
                   /\ o.value = (IF tx.sends[1].amount < 0
                                 THEN -tx.sends[1].amount
                                 ELSE tx.sends[1].amount)
                   /\ o.contract_address = tx.sends[1].token_id
            /\ (tx.sends = <<>> /\ tx.receives # <<>>) =>
                   /\ o.side = "receive"
                   /\ o.value = (IF tx.receives[1].amount < 0
                                 THEN -tx.receives[1].amount
                                 ELSE tx.receives[1].amount)
                   /\ o.contract_address = tx.receives[1].token_id

\* C22: the same for the records whose category hint is not approve: without
\* a grant and with a hint other than approve, outgoing legs alone yield send
\* (deposit under the hint deposit) and incoming legs alone yield receive,
\* each with the absolute amount and the asset of the first leg of its kind.
C22_LegInference ==
    (norm.kind = "transaction" /\ norm.done
        /\ ~norm.tx.token_approve.present
        /\ norm.tx.cate_id # "approve") =>
        LET tx == norm.tx
            o  == norm.out
        IN  /\ (tx.sends # <<>> /\ tx.receives = <<>>) =>
                   /\ o.side = (IF tx.cate_id = "deposit" THEN "deposit"
                                ELSE "send")
                   /\ o.tx_type = o.side
                   /\ o.value = (IF tx.sends[1].amount < 0
                                 THEN -tx.sends[1].amount
                                 ELSE tx.sends[1].amount)
                   /\ o.contract_address = tx.sends[1].token_id
            /\ (tx.sends = <<>> /\ tx.receives # <<>>) =>
                   /\ o.side = "receive"
                   /\ o.tx_type = o.side
                   /\ o.value = (IF tx.receives[1].amount < 0
                                 THEN -tx.receives[1].amount
                                 ELSE tx.receives[1].amount)
                   /\ o.contract_address = tx.receives[1].token_id

\* C23: among the records with both outgoing and incoming legs (no approval
\* grant, hint not approve), a record is classified swap exactly when its
\* legs involve different assets, and a swap takes asset, amount and
\* counterparty_to from the first outgoing leg.
C23_SwapIffAssetsDiffer ==
    (norm.kind = "transaction" /\ norm.done
        /\ ~norm.tx.token_approve.present
        /\ norm.tx.cate_id # "approve"
        /\ norm.tx.sends # <<>> /\ norm.tx.receives # <<>>) =>
        LET tx == norm.tx
            o  == norm.out
            differ == \E i \in DOMAIN tx.sends, j \in DOMAIN tx.receives :
                          tx.sends[i].token_id # tx.receives[j].token_id
        IN  /\ (o.side = "swap") <=> differ
            /\ (o.side = "swap") =>
                   /\ o.contract_address = tx.sends[1].token_id
                   /\ o.value = (IF tx.sends[1].amount < 0
                                 THEN -tx.sends[1].amount
                                 ELSE tx.sends[1].amount)
                   /\ o.to_address = tx.sends[1].addr

\* C24: every record that carries an approval grant is classified approve,
\* whatever legs and hint it has, with the absolute approved quantity as amount
\* and the granted spender as counterparty_to.
C24_GrantIsApprove ==
    (norm.kind = "transaction" /\ norm.done
        /\ norm.tx.token_approve.present) =>
        /\ norm.out.side = "approve"
        /\ norm.out.tx_type = "approve"
        /\ norm.out.value = (IF norm.tx.token_approve.value < 0
                             THEN -norm.tx.token_approve.value
                             ELSE norm.tx.token_approve.value)
        /\ norm.out.to_address = norm.tx.token_approve.spender
        /\ norm.out.contract_address = norm.tx.token_approve.token_id

\* a record with a grant of a negative quantity, legs of both kinds and the
\* hint send has been normalized
C24_Witness ==
    /\ norm.kind = "transaction" /\ norm.done
    /\ norm.tx.token_approve.present
    /\ norm.tx.token_approve.value < 0
    /\ norm.tx.cate_id = "send"
    /\ norm.tx.sends # <<>> /\ norm.tx.receives # <<>>
    /\ norm.out.side = "approve"
    /\ norm.out.value > 0

\* C25 as stated: a record with neither a grant nor a leg is emitted with
\* action unknown and amount 0, for every value of its category hint.
C25_Original ==
    (norm.kind = "transaction" /\ norm.done
        /\ ~norm.tx.token_approve.present
        /\ norm.tx.sends = <<>> /\ norm.tx.receives = <<>>) =>
        /\ norm.out.side = "unknown"
        /\ norm.out.value = 0

\* C25: a record with neither a grant nor a leg is emitted with amount 0 and
\* no asset; its action is unknown for every category hint but approve, and
\* approve under the hint approve.
C25_NoLegsUnknown ==
    (norm.kind = "transaction" /\ norm.done
        /\ ~norm.tx.token_approve.present
        /\ norm.tx.sends = <<>> /\ norm.tx.receives = <<>>) =>
        /\ norm.out.side = (IF norm.tx.cate_id = "approve" THEN "approve"
                            ELSE "unknown")
        /\ norm.out.tx_type = norm.out.side
        /\ norm.out.value = 0
        /\ norm.out.contract_address = ""

\* a record without grant and legs whose hint is deposit has been normalized
C25_Witness ==
    /\ norm.kind = "transaction" /\ norm.done
    /\ ~norm.tx.token_approve.present
    /\ norm.tx.sends = <<>> /\ norm.tx.receives = <<>>
    /\ norm.tx.cate_id = "deposit"
    /\ norm.out.side = "unknown"
    /\ norm.out.value = 0

\* C26 as stated: for every instant s in seconds whose millisecond form
\* 1000 * s exceeds 1e10, normalize_timestamp(s) and
\* normalize_timestamp(1000 * s) are the same UTC instant.
C26_Original ==
    (norm.kind = "timestamp" /\ norm.done
        /\ (norm.s[1] > 10
             \/ (norm.s[1] = 10 /\ (norm.s[2] > 0 \/ norm.s[3] > 0)))) =>
        norm.out.s = norm.out.ms

\* C26: an integer above 1e10 is read as milliseconds and any other as
\* seconds, so for every instant s in seconds with 1e7 < s <= 1e10,
\* normalize_timestamp(s) and normalize_timestamp(1000 * s) are the same UTC
\* instant, s seconds after the epoch.
C26_SecondsAndMillisAgree ==
    (norm.kind = "timestamp" /\ norm.done
        /\ (norm.s[1] > 10
             \/ (norm.s[1] = 10 /\ (norm.s[2] > 0 \/ norm.s[3] > 0)))
        /\ (norm.s[1] < 10000
             \/ (norm.s[1] = 10000 /\ norm.s[2] = 0 /\ norm.s[3] = 0))) =>
        /\ norm.out.s = norm.out.ms
        /\ norm.out.s = <<norm.s[1] * 1000 + norm.s[2], norm.s[3], 0>>

\* the instant 1700000000 has been normalized from seconds and from
\* milliseconds
C26_Witness ==
    /\ norm.kind = "timestamp" /\ norm.done
    /\ norm.s = <<1700, 0, 0>>
    /\ norm.out.s = <<1700000, 0, 0>>
    /\ norm.out.ms = <<1700000, 0, 0>>

\* C27: every stored record lies in the partition of the UTC (year, month) of
\* its timestamp and in no other; every dated record a finished run produced
\* is in the partition of its month; and the run changed or created no
\* partition but those of the months of the records it produced.  The same
\* for the exchange files: each file holds records of its month only, and a
\* file an export changed or created holds a record the export produced.
C27_PartitionRouting ==
    /\ \A k \in DOMAIN files : \A i \in DOMAIN files[k] :
           YearMonth(files[k][i].block_timestamp) = k
    /\ (pc = "idle" /\ trace.saved) =>
           LET produced == DropNaT(all_transactions)
               months == {YearMonth(produced[i].block_timestamp) :
                              i \in DOMAIN produced}
           IN  /\ \A i \in DOMAIN produced :
                      LET k == YearMonth(produced[i].block_timestamp)
                      IN  /\ k \in DOMAIN files
                          /\ \E j \in DOMAIN files[k] :
                                 files[k][j].tx_hash = produced[i].tx_hash
                          /\ \A o \in DOMAIN files : \A j \in DOMAIN files[o] :
                                 files[o][j].tx_hash = produced[i].tx_hash
                                     => o = k
               /\ \A k \in DOMAIN files :
                      (k \notin DOMAIN files_before
                       \/ files[k] # files_before[k]) => k \in months
               /\ DOMAIN files_before \subseteq DOMAIN files
    /\ \A k \in DOMAIN xfiles : \A i \in DOMAIN xfiles[k] :
           MonthKey(xfiles[k][i]) = k[3]
    /\ \A k \in DOMAIN xfiles :
           (xruns > 0 /\ (k \notin DOMAIN xfiles_before
                          \/ xfiles[k] # xfiles_before[k])) =>
               xfiles[k] # <<>>

\* an incremental run has stored a February record and left the January
\* partition as it found it
C27_Witness ==
    /\ pc = "idle" /\ trace.saved
    /\ DOMAIN files_before = {<<2024, 1>>}
    /\ DOMAIN files = {<<2024, 1>>, <<2024, 2>>}
    /\ files[<<2024, 1>>] = files_before[<<2024, 1>>]
    /\ files[<<2024, 2>>] # <<>>
    /\ \A i \in DOMAIN all_transactions :
           YearMonth(all_transactions[i].block_timestamp) = <<2024, 2>>

\* C28: with the filter enabled no record the source flags as scam is among
\* the run's normalized records or in a stored partition, and the number an
\* iteration drops is the number of flagged records it fetched; with the
\* filter disabled nothing is dropped and every fetched record, flagged or
\* not, is normalized (full run).
C28_ScamFilter ==
    /\ last_outcome.made =>
           last_outcome.scam_count =
               (IF filter_scams
                THEN Cardinality({i \in DOMAIN last_outcome.fetched :
                                     last_outcome.fetched[i].is_scam})
                ELSE 0)
    /\ filter_scams =>
           \A c \in ChainSet : \A i \in DOMAIN history[c] :
               (/\ history[c][i].is_scam
                /\ \A j \in DOMAIN history[c] :
                       history[c][j].id = history[c][i].id
                           => history[c][j].is_scam) =>
                   /\ \A j \in DOMAIN all_transactions :
                          ~(/\ all_transactions[j].tx_hash = history[c][i].id
                            /\ all_transactions[j].chain = c)
                   /\ \A k \in DOMAIN files : \A j \in DOMAIN files[k] :
                          ~(/\ files[k][j].tx_hash = history[c][i].id
                            /\ files[k][j].chain = c)
    /\ (~filter_scams /\ last_outcome.made /\ ~incremental) =>
           \A i \in DOMAIN last_outcome.fetched :
               \E j \in DOMAIN all_transactions :
                   /\ all_transactions[j].tx_hash = last_outcome.fetched[i].id
                   /\ all_transactions[j].chain = last_outcome.fetched[i].chain

\* with the filter enabled an iteration has fetched a flagged and an
\* unflagged record, dropped one and normalized the other
C28_Witness ==
    /\ filter_scams
    /\ last_outcome.made
    /\ Len(last_outcome.fetched) = 2
    /\ last_outcome.scam_count = 1
    /\ last_outcome.count = 1

\* with the filter disabled a run has stored a flagged record
C28_WitnessDisabled ==
    /\ ~filter_scams
    /\ pc = "idle" /\ trace.saved
    /\ \E c \in ChainSet : \E i \in DOMAIN history[c] :
           /\ history[c][i].is_scam
           /\ \E k \in DOMAIN files : \E j \in DOMAIN files[k] :
                  /\ files[k][j].tx_hash = history[c][i].id
                  /\ files[k][j].chain = c

\* C29: in an incremental iteration that read a stored watermark, the fetch
\* is bounded below by the overlap-adjusted watermark: it returns no dated
\* record older than it.
C29_FetchBoundedByWatermark ==
    (/\ last_outcome.made /\ incremental
     /\ last_call.made /\ last_call.hadRow /\ ~last_call.failed) =>
        \A i \in DOMAIN last_outcome.fetched :
            last_outcome.fetched[i].time_at # NullTimeAt
                => last_outcome.fetched[i].time_at >= last_call.result

\* C30: after create_unified_table, transactions_unified holds every row as
\* often as staged_exchanges and staged_onchain hold it together (the
\* multiset union, in either order of the operands), whatever the table held
\* before; a second rebuild leaves the content of the first.
C30_UnifiedIsUnion ==
    LET Count(rows, x) == Cardinality({i \in DOMAIN rows : rows[i] = x})
        u  == curated.transactions_unified
        se == curated.staged_exchanges
        so == curated.staged_onchain
    IN  /\ curated.rebuilds >= 1 =>
               \A x \in Range(u) \cup Range(se) \cup Range(so) :
                   /\ Count(u, x) = Count(se, x) + Count(so, x)
                   /\ Count(u, x) = Count(so, x) + Count(se, x)
        /\ curated.rebuilds = 2 =>
               \A x \in Range(u) \cup Range(curated.held) :
                   Count(u, x) = Count(curated.held, x)

\* a rebuild has found rows of an earlier staging in transactions_unified and
\* replaced them by the rows of both staged tables
C30_Witness ==
    /\ curated.rebuilds = 1
    /\ curated.held # <<>>
    /\ curated.held # curated.transactions_unified
    /\ curated.staged_exchanges # <<>>
    /\ curated.staged_onchain # <<>>

\* the rebuild has been invoked twice on non-empty staged tables
C30_WitnessTwice ==
    /\ curated.rebuilds = 2
    /\ curated.staged_exchanges # <<>>
    /\ curated.staged_onchain # <<>>

\* C31: within one exporter at most one /token request is sent per
\* (chain, asset identifier), and every later call for the key returns what
\* the first returned; an asset of the known table causes no request and gets
\* the table's entry; a request that fails or answers another status than 200
\* yields the placeholder (first 8 characters of the identifier, 18
\* decimals).
C31_TokenInfoCached ==
    norm.kind = "token" =>
        LET calls == norm.calls
        IN  /\ \A i, j \in DOMAIN calls :
                   (/\ i < j
                    /\ calls[i].token_id = calls[j].token_id
                    /\ calls[i].chain = calls[j].chain) =>
                       /\ ~(calls[i].requested /\ calls[j].requested)
                       /\ calls[j].info = calls[i].info
            /\ \A i \in DOMAIN calls :
                   /\ TokenIdLower(calls[i].token_id) \in DOMAIN KnownTokens =>
                          /\ ~calls[i].requested
                          /\ calls[i].info =
                                 KnownTokens[TokenIdLower(calls[i].token_id)]
                   /\ (calls[i].requested /\ calls[i].status # 200) =>
                          /\ calls[i].info.symbol =
                                 TokenIdPrefix(calls[i].token_id)
                          /\ calls[i].info.decimals = 18

\* a request for DAI has raised, and a second call for the same key has
\* returned the placeholder without a request
C31_Witness ==
    /\ norm.kind = "token"
    /\ Len(norm.calls) = 2
    /\ norm.calls[1].requested /\ norm.calls[1].status = 0
    /\ norm.calls[2].token_id = norm.calls[1].token_id
    /\ norm.calls[2].chain = norm.calls[1].chain
    /\ ~norm.calls[2].requested
    /\ norm.calls[2].info.symbol = "0x6b1754"

\* C32: a record whose timestamp is missing or unparseable gets no fabricated
\* occurred_at: normalize_timestamp does not return the current time for it,
\* and the record's month key is not the month of the run.
C32_NoFabricatedTimestamp ==
    (norm.kind = "bad_timestamp" /\ norm.done) =>
        /\ norm.out # <<norm.clock, 0>>
        /\ MonthKey([datetime |-> norm.out]) # YearMonth(norm.clock)

\* C34: export_trades returns every upstream trade at or after START_TS
\* exactly once, for every history and every batch size, trades that share
\* the timestamp of the last trade of a page included.
C34_PaginationComplete ==
    (norm.kind = "trades" /\ norm.done) =>
        \A i \in DOMAIN norm.hist :
            Cardinality({j \in DOMAIN norm.out :
                norm.out[j].txid = TradesOf(norm.hist)[i].id}) = 1

\* C35: in get_user_history the cursor sent for page n+1 differs from the
\* cursor sent for page n, no more than max_pages pages are requested, and
\* when no request failed the returned list holds no transaction twice.
C35_PaginationProgress ==
    norm.kind = "history" =>
        /\ \A n \in 1..(Len(norm.cursors) - 1) :
               norm.cursors[n + 1] # norm.cursors[n]
        /\ Len(norm.cursors) <= norm.max_pages
        /\ (norm.done /\ ~norm.failed) =>
               /\ norm.all_transactions =
                      GetUserHistory(HistoryOf(norm.hist), norm.page_count,
                                     norm.max_pages, 0)
               /\ \A i \in DOMAIN norm.all_transactions :
                      \A j \in DOMAIN norm.all_transactions :
                          i # j => norm.all_transactions[i].id #
                                   norm.all_transactions[j].id

\* three full pages were fetched one after the other, none failing
C35_Witness ==
    /\ norm.kind = "history" /\ norm.done /\ ~norm.failed
    /\ Len(norm.cursors) = 3
    /\ Len(norm.all_transactions) >= 3

\* C36: a first incremental run (no watermark row stored) leaves the
\* partition files a full-mode run over the same upstream leaves.
C36_FirstIncrementalAsFull ==
    (/\ pc = "idle" /\ runNo = 1 /\ trace.saved /\ faults = 0
     /\ incremental)
    => files = FullRunFiles(history)

\* C38: after staging and unification of the raw store, every raw record
\* with a non-empty id (trade, deposit, on-chain transfer) is exactly once
\* in transactions_unified, with the year and month of its timestamp, and
\* transactions_unified holds no row with an empty or null id.
C38_UnifiedHoldsEveryRawRecord ==
    LET trades    == raw["raw_exchanges_trades"]
        deposits  == raw["raw_exchanges_deposits"]
        transfers == raw["raw_onchain_transfers"]
        unified   == curated.transactions_unified
        once(source, txid, ym) ==
            /\ Cardinality({j \in DOMAIN unified :
                   unified[j].source = source /\ unified[j].txid = txid}) = 1
            /\ \A j \in DOMAIN unified :
                   (unified[j].source = source /\ unified[j].txid = txid)
                       => unified[j].ym = ym
    IN  (/\ curated.rebuilds >= 1
         /\ curated.staged_exchanges =
                [i \in DOMAIN trades |-> StageExchangeRow(trades[i])]
         /\ curated.staged_onchain =
                [i \in DOMAIN transfers |-> StageOnchainRow(transfers[i])])
        => /\ \A i \in DOMAIN trades :
                  once(trades[i].source, trades[i].txid,
                       YearMonth(trades[i].datetime[1]))
           /\ \A i \in DOMAIN deposits :
                  once(deposits[i].source, deposits[i].txid,
                       YearMonth(deposits[i].datetime[1]))
           /\ \A i \in DOMAIN transfers :
                  once(Source(transfers[i].chain), transfers[i].tx_hash,
                       YearMonth(transfers[i].block_timestamp))
           /\ \A j \in DOMAIN unified : unified[j].txid \notin {NoneV, ""}

\* C39: for a chain with non-decreasing block timestamps and a timestamp not
\* in the future, get_block_from_timestamp returns a block number in
\* 0..current_block, the greatest whose timestamp is at most the timestamp
\* asked for, a timestamp before block 0 included.
C39_GreatestBlockAtOrBefore ==
    (/\ norm.kind = "block" /\ norm.done
     /\ norm.timestamp <= norm.blocks[Len(norm.blocks)])
    => /\ norm.out \in 0..(Len(norm.blocks) - 1)
       /\ norm.blocks[norm.out + 1] <= norm.timestamp
       /\ \A n \in 0..(Len(norm.blocks) - 1) :
              norm.blocks[n + 1] <= norm.timestamp => n <= norm.out

\* a deposit of two outgoing legs of different assets has been normalized
C22_Witness ==
    /\ norm.kind = "transaction" /\ norm.done
    /\ ~norm.tx.token_approve.present
    /\ norm.tx.cate_id = "deposit"
    /\ Len(norm.tx.sends) = 2 /\ norm.tx.receives = <<>>
    /\ norm.tx.sends[1].token_id # norm.tx.sends[2].token_id
    /\ norm.out.side = "deposit"
    /\ norm.out.contract_address = norm.tx.sends[1].token_id

(***************************************************************************)
(* Properties of the stager.                                               *)
(***************************************************************************)
\* a table as the multiset of its rows
TableState(rows) ==
    [r \in Range(rows) |-> Cardinality({i \in DOMAIN rows : rows[i] = r})]

\* C1: loading the same files a second time leaves each raw table as the
\* first load left it: the same rows, each once, with the same field
\* values, whatever the table held before the first load.
C1_UpsertIdempotent ==
    \A t \in RawTables :
        reloads[t] = 2 => TableState(raw[t]) = TableState(raw_before[t])

\* a table loaded twice from unchanged files that holds two rows, one of
\* them with the field values of the upstream's second snapshot
C1_Witness ==
    \E t \in RawTables :
        /\ reloads[t] = 2
        /\ Len(raw[t]) >= 2
        /\ \E i \in DOMAIN raw[t] : raw[t][i].raw_json = 2

\* C20: after a load of unchanged trades files, every row of a file whose
\* datetime parses is in raw_exchanges_trades, also when another row of
\* its file is malformed.
C20_ValidRowsUpserted ==
    (reloads["raw_exchanges_trades"] >= 1 /\ ~dup_raises)
    => \A k \in DOMAIN xfiles : \A i \in DOMAIN xfiles[k] :
           xfiles[k][i].datetime # Unparseable
           => \E j \in DOMAIN raw["raw_exchanges_trades"] :
                  /\ raw["raw_exchanges_trades"][j].source = xfiles[k][i].source
                  /\ raw["raw_exchanges_trades"][j].txid = xfiles[k][i].txid

StmtKeys(s) == {PrimaryKey(s.table, s.batch[i]) : i \in DOMAIN s.batch}
RowsOfKey(table, rows, k) ==
    {i \in DOMAIN rows : PrimaryKey(table, rows[i]) = k}
\* the last row of the batch with key k
LastOfKey(s, k) ==
    LET is == RowsOfKey(s.table, s.batch, k)
    IN  s.batch[CHOOSE i \in is : \A j \in is : j <= i]
\* the rows of a table whose key is not in the statement's batch
Untouched(s, rows) ==
    TableState(SelectSeq(rows, LAMBDA r :
                   PrimaryKey(s.table, r) \notin StmtKeys(s)))

\* C5: after a statement has upserted a batch, the table holds for every
\* key of the batch exactly one row, with the fields of the batch's (last)
\* row of that key, and the rows of every other key are as they were
\* before the statement; a statement that raised changed nothing.
C5_LastWriteWinsWithFrame ==
    last_stmt.made =>
        IF last_stmt.raised
        THEN last_stmt.after = last_stmt.before
        ELSE /\ \A k \in StmtKeys(last_stmt) :
                   /\ Cardinality(RowsOfKey(last_stmt.table, last_stmt.after,
                                            k)) = 1
                   /\ \A i \in RowsOfKey(last_stmt.table, last_stmt.after, k) :
                          last_stmt.after[i] = LastOfKey(last_stmt, k)
             /\ Untouched(last_stmt, last_stmt.after)
                    = Untouched(last_stmt, last_stmt.before)

\* a statement that replaced a stored row by a row with other field values
\* and left a row of another key alone
C5_Witness ==
    /\ last_stmt.made
    /\ ~last_stmt.raised
    /\ \E i \in DOMAIN last_stmt.batch, j \in DOMAIN last_stmt.before :
          /\ PrimaryKey(last_stmt.table, last_stmt.batch[i])
                 = PrimaryKey(last_stmt.table, last_stmt.before[j])
          /\ last_stmt.batch[i] # last_stmt.before[j]
    /\ \E j \in DOMAIN last_stmt.before :
          PrimaryKey(last_stmt.table, last_stmt.before[j])
              \notin StmtKeys(last_stmt)

(***************************************************************************)
(* Properties of the exchange exporter.                                    *)
(***************************************************************************)
\* C6: every natural key (source, txid) a month file held before an export
\* is in that file after the export.
C6_NoHistoryLost ==
    loop.pc = "done" =>
        \A k \in DOMAIN xfiles_before :
            /\ k \in DOMAIN xfiles
            /\ \A i \in DOMAIN xfiles_before[k] :
                  \E j \in DOMAIN xfiles[k] :
                      /\ xfiles[k][j].source = xfiles_before[k][i].source
                      /\ xfiles[k][j].txid = xfiles_before[k][i].txid

=============================================================================
